---- MODULE Spec2Model ----
(***************************************************************************)
(* Model of the task repository of speckit: SQLiteTaskRepository           *)
(* (src/src/database/repository.py) over the tasks table created by        *)
(* create_schema (src/src/database/migrations.py), returning Task values   *)
(* (src/src/models/task.py).                                               *)
(*                                                                         *)
(* The store is file-backed: every operation opens its own connection      *)
(* (repository.py:58-62), so concurrent callers meet in                    *)
(* the storage engine.  sqlite3 opens a transaction implicitly before an   *)
(* INSERT, UPDATE or DELETE and the statement takes the one write lock of  *)
(* the database, whether or not it matches a row; the lock is held until   *)
(* commit() or rollback().  A writer that finds the lock taken waits in    *)
(* the busy handler and then runs its statement on the committed rows; the *)
(* holder of the lock is taken to commit within the busy timeout.  Readers *)
(* see the committed rows only (journal_mode = WAL, connection.py:32).     *)
(* CREATE TABLE and CREATE INDEX open no transaction in sqlite3: each runs *)
(* in autocommit mode and is in the store when it returns.                 *)
(*                                                                         *)
(* Repository instances, on files or on ':memory:', with the connections   *)
(* they open and close, are the variables repos, stores and conns; their   *)
(* operations are atomic steps.  StreamlitUIController                     *)
(* (src/src/ui/controller.py) and TaskFormData (src/src/ui/models.py) are  *)
(* modelled over the same store.                                           *)
(***************************************************************************)
EXTENDS Integers, Sequences, FiniteSets, TLC

VARIABLES schema, rows, seq, lock, txn, clock, pc, op, arg, cur, out, hist,
          race, repos, stores, conns

\* the repository instances, the databases they are opened on and the open
\* connections
life == <<repos, stores, conns>>

vars == <<schema, rows, seq, lock, txn, clock, pc, op, arg, cur, out, hist,
          race, life>>

(* ------------------------------ bounds --------------------------------- *)
MaxId == 2
MaxClock == 2
MaxLen == 1
\* tasks created by the one caller of the sequential specification
MaxTasks == 3

Callers == {"c1", "c2"}
Ids == 1..MaxId

(* ------------------------- values of the code -------------------------- *)
\* Python None / SQL NULL in a timestamp position
None == [none |-> TRUE]
NULL == [null |-> TRUE]
\* Python None passed as a description
NoDescription == <<"None">>
NoCaller == "nobody"
ValueError == "ValueError"
RuntimeError == "RuntimeError"
SqliteError == "sqlite3.Error"
IntegrityError == "sqlite3.IntegrityError"

\* characters a description is made of: a whitespace character, an ordinary
\* character and the NUL character (U+0000), which str.strip() keeps and at
\* which SQLite's length() stops counting
Chars == {" ", "a", "NUL"}

StrsOfLen(n) == [1..n -> Chars]

Descriptions == {NoDescription} \cup UNION {StrsOfLen(n) : n \in 0..MaxLen}

IsSpace(ch) == ch = " "

\* str.lstrip(): from the first character that is not whitespace
LStrip(s) ==
    IF \A n \in 1..Len(s) : IsSpace(s[n]) THEN <<>>
    ELSE SubSeq(s, CHOOSE n \in 1..Len(s) :
                      /\ ~IsSpace(s[n])
                      /\ \A m \in 1..(n - 1) : IsSpace(s[m]),
                Len(s))

\* str.rstrip(): up to the last character that is not whitespace
RStrip(s) ==
    IF \A n \in 1..Len(s) : IsSpace(s[n]) THEN <<>>
    ELSE SubSeq(s, 1, CHOOSE n \in 1..Len(s) :
                         /\ ~IsSpace(s[n])
                         /\ \A m \in (n + 1)..Len(s) : IsSpace(s[m]))

\* str.strip()
Strip(s) == RStrip(LStrip(s))

\* SQLite length(X) of a text value: the number of characters before the
\* first NUL character
SqlLength(s) ==
    IF \A n \in 1..Len(s) : s[n] # "NUL" THEN Len(s)
    ELSE (CHOOSE n \in 1..Len(s) :
             /\ s[n] = "NUL"
             /\ \A m \in 1..(n - 1) : s[m] # "NUL") - 1

\* CURRENT_TIMESTAMP: the text 'YYYY-MM-DD HH:MM:SS' of the storage clock,
\* one value per second
CurrentTimestamp(now) == [text |-> now]

\* datetime.strptime(text, '%Y-%m-%d %H:%M:%S'): the naive datetime of the
\* text
Strptime(ts) == [secs |-> ts.text]

\* date.fromisoformat(text[:10]): the time of day is dropped
FromIsoFormat_Date(ts) == [secs |-> 0]

\* datetime.fromisoformat(text) of the text 'YYYY-MM-DD HH:MM:SS': the naive
\* datetime of the text
FromIsoFormat(ts) == [secs |-> ts.text]

(* ------------------------------ schema --------------------------------- *)
\* the indexes of create_indexes, in the order of their creation
Indexes ==
    <<"idx_tasks_status", "idx_tasks_created_at", "idx_tasks_completed_at">>

\* a store without the tasks table, and the store after create_schema
NoSchema == [table |-> FALSE, indexes |-> {}]
FullSchema ==
    [table |-> TRUE, indexes |-> {Indexes[n] : n \in 1..Len(Indexes)}]

\* the statements of create_schema in the order of their execution: CREATE
\* TABLE tasks, then the three CREATE INDEX of create_indexes
Statements == <<"tasks">> \o Indexes

Exists(sch, name) ==
    IF name = "tasks" THEN sch.table ELSE name \in sch.indexes

\* the statement without IF NOT EXISTS: an error when the object exists
CreateIfNotExists_Strict(sch, name) ==
    [ok |-> ~Exists(sch, name),
     schema |-> IF name = "tasks" THEN [sch EXCEPT !.table = TRUE]
                ELSE [sch EXCEPT !.indexes = @ \cup {name}]]

\* CREATE TABLE IF NOT EXISTS tasks (...) and CREATE INDEX IF NOT EXISTS
\* name ON tasks(...): the object exists afterwards, no error if it existed
CreateIfNotExists(sch, name) ==
    [ok |-> TRUE,
     schema |-> IF name = "tasks" THEN [sch EXCEPT !.table = TRUE]
                ELSE [sch EXCEPT !.indexes = @ \cup {name}]]

\* description TEXT NOT NULL, without the CHECK
CheckDescription_NotNull(row) == TRUE

\* description TEXT NOT NULL CHECK(length(description) > 0)
CheckDescription(row) == SqlLength(row.description) > 0

\* status TEXT NOT NULL CHECK(status IN ('pending', 'completed'))
CheckStatus(row) == row.status \in {"pending", "completed"}

\* a tasks table created without the valid_completion constraint
ValidCompletion_Missing(row) == TRUE

\* CONSTRAINT valid_completion
ValidCompletion(row) ==
    \/ row.status = "pending" /\ row.completed_at = NULL
    \/ row.status = "completed" /\ row.completed_at # NULL

\* the constraints of the tasks table, checked on every written row
TableConstraints(row) ==
    /\ CheckDescription(row)
    /\ CheckStatus(row)
    /\ row.created_at # NULL
    /\ ValidCompletion(row)

Max(S) == CHOOSE m \in S : \A x \in S : x <= m

\* the ids a task can have in any of the specifications
AllIds == 1..Max({MaxId, MaxTasks})

\* id INTEGER PRIMARY KEY without AUTOINCREMENT: one more than the largest
\* rowid the table holds now
NextRowid_NoAutoincrement(tbl, seqv) == Max({0} \cup DOMAIN tbl) + 1

\* id INTEGER PRIMARY KEY AUTOINCREMENT: one more than the largest rowid the
\* table has ever held (sqlite_sequence), not only the largest it holds now
NextRowid(tbl, seqv) == Max({seqv} \cup DOMAIN tbl) + 1

(* ---------------------------- statements ------------------------------- *)
\* INSERT INTO tasks (description, status, created_at)
\* VALUES (?, 'pending', CURRENT_TIMESTAMP)
SqlInsert(tbl, seqv, description, now) ==
    LET id == NextRowid(tbl, seqv)
        row == [description |-> description, status |-> "pending",
                created_at |-> CurrentTimestamp(now), completed_at |-> NULL]
    IN IF TableConstraints(row)
       THEN [ok |-> TRUE, rows |-> [i \in DOMAIN tbl \cup {id} |->
                                       IF i = id THEN row ELSE tbl[i]],
             seq |-> id, lastrowid |-> id]
       ELSE [ok |-> FALSE, rows |-> tbl, seq |-> seqv, lastrowid |-> 0]

\* WHERE id = ?, the update is not conditional on the status
UpdateWhere_AnyStatus(tbl, id) == {i \in DOMAIN tbl : i = id}

\* WHERE id = ? AND status = 'pending'
UpdateWhere(tbl, id) == {i \in DOMAIN tbl : i = id /\ tbl[i].status = "pending"}

\* an UPDATE that also sets created_at = CURRENT_TIMESTAMP
SqlUpdate_Touch(tbl, id, now) ==
    LET hit == UpdateWhere(tbl, id)
    IN [ok |-> TRUE,
        rows |-> [i \in DOMAIN tbl |->
                    IF i \in hit
                    THEN [tbl[i] EXCEPT !.status = "completed",
                                        !.created_at = CurrentTimestamp(now),
                                        !.completed_at = CurrentTimestamp(now)]
                    ELSE tbl[i]],
        rowcount |-> Cardinality(hit)]

\* an UPDATE that sets completed_at = 0, the first second of the clock
SqlUpdate_Epoch(tbl, id, now) ==
    LET hit == UpdateWhere(tbl, id)
    IN [ok |-> TRUE,
        rows |-> [i \in DOMAIN tbl |->
                    IF i \in hit
                    THEN [tbl[i] EXCEPT !.status = "completed",
                                        !.completed_at = CurrentTimestamp(0)]
                    ELSE tbl[i]],
        rowcount |-> Cardinality(hit)]

\* UPDATE tasks SET status = 'completed', completed_at = CURRENT_TIMESTAMP
\* WHERE id = ? AND status = 'pending'
SqlUpdate(tbl, id, now) ==
    LET hit == UpdateWhere(tbl, id)
        new == [i \in DOMAIN tbl |->
                  IF i \in hit
                  THEN [tbl[i] EXCEPT !.status = "completed",
                                      !.completed_at = CurrentTimestamp(now)]
                  ELSE tbl[i]]
    IN IF \A i \in hit : TableConstraints(new[i])
       THEN [ok |-> TRUE, rows |-> new, rowcount |-> Cardinality(hit)]
       ELSE [ok |-> FALSE, rows |-> tbl, rowcount |-> 0]

\* a soft delete: the row is counted but stays in the table
SqlDelete_Soft(tbl, id) ==
    [rows |-> tbl, rowcount |-> Cardinality({i \in DOMAIN tbl : i = id})]

\* DELETE FROM tasks, without the WHERE clause
SqlDelete_NoWhere(tbl, id) ==
    [rows |-> <<>>, rowcount |-> Cardinality(DOMAIN tbl)]

\* DELETE FROM tasks WHERE id = ? AND status = 'pending'
SqlDelete_PendingOnly(tbl, id) ==
    LET hit == {i \in DOMAIN tbl : i = id /\ tbl[i].status = "pending"}
    IN [rows |-> [i \in DOMAIN tbl \ hit |-> tbl[i]],
        rowcount |-> Cardinality(hit)]

\* DELETE FROM tasks WHERE id = ?
SqlDelete(tbl, id) ==
    LET hit == {i \in DOMAIN tbl : i = id}
    IN [rows |-> [i \in DOMAIN tbl \ hit |-> tbl[i]],
        rowcount |-> Cardinality(hit)]

(* ------------------------------ Task ----------------------------------- *)
Raise(e) == [kind |-> e]

\* except sqlite3.Error as e: connection.rollback(); raise RuntimeError(...)
\* with the step of the operation at which the storage failed (history)
StorageError(at) == [kind |-> RuntimeError, at |-> at]

\* get_connection: raise sqlite3.Error("Failed to connect to database ...")
ConnectionError == [kind |-> SqliteError, at |-> "connect"]

\* create_schema: except sqlite3.Error as e: connection.rollback();
\* raise sqlite3.Error("Failed to create schema: ...")
SchemaError(at) == [kind |-> SqliteError, at |-> at]

\* Task.__post_init__: the constructed Task, or ValueError
Task(id, description, status, created_at, completed_at) ==
    IF description = NoDescription \/ description = <<>>
       \/ Strip(description) = <<>>
    THEN Raise(ValueError)
    ELSE IF status = "pending" /\ completed_at # None THEN Raise(ValueError)
    ELSE IF status = "completed" /\ completed_at = None THEN Raise(ValueError)
    ELSE [kind |-> "Task", id |-> id, description |-> Strip(description),
          status |-> status, created_at |-> created_at,
          completed_at |-> completed_at]

\* SQLiteTaskRepository._row_to_task
RowToTask(tbl, id) ==
    LET row == tbl[id]
        created_at == Strptime(row.created_at)
        completed_at == IF row.completed_at # NULL
                        THEN Strptime(row.completed_at) ELSE None
    IN Task(id, row.description, row.status, created_at, completed_at)

(* ------------------------------ queries -------------------------------- *)
\* the rows S by key k descending; rows with equal keys come in descending
\* rowid order when backward (backward scan of the index on the key) and in
\* ascending rowid order otherwise (sorter over a forward scan)
RECURSIVE OrderByDesc(_, _, _)
OrderByDesc(S, k, backward) ==
    IF S = {} THEN <<>>
    ELSE LET first == CHOOSE m \in S : \A x \in S \ {m} :
                         \/ k[m] > k[x]
                         \/ k[m] = k[x] /\ (IF backward THEN m > x ELSE m < x)
         IN <<first>> \o OrderByDesc(S \ {first}, k, backward)

\* [self._row_to_task(row) for row in rows]; an exception of a conversion
\* is the outcome of the whole query
RowsToTasks(tbl, order) ==
    LET tasks == [n \in 1..Len(order) |-> RowToTask(tbl, order[n])]
    IN IF \E n \in 1..Len(order) : tasks[n].kind = ValueError
       THEN Raise(ValueError) ELSE [kind |-> "list", val |-> tasks]

CreatedKey(tbl) == [i \in DOMAIN tbl |-> tbl[i].created_at.text]

CompletedKey(tbl) ==
    [i \in DOMAIN tbl |->
       IF tbl[i].completed_at = NULL THEN -1 ELSE tbl[i].completed_at.text]

\* a planner that sends every ORDER BY through the sorter
ScanBackward_Never(filtered) == FALSE

\* the query planner: ORDER BY created_at DESC is answered by a backward
\* scan of idx_tasks_created_at when that index exists and the rows are not
\* looked up through idx_tasks_status; every other ORDER BY goes through
\* the sorter
ScanBackward(filtered) ==
    /\ "idx_tasks_created_at" \in schema.indexes
    /\ ~(filtered /\ "idx_tasks_status" \in schema.indexes)

\* SELECT ... FROM tasks ORDER BY created_at DESC
SelectAll(tbl) ==
    RowsToTasks(tbl, OrderByDesc(DOMAIN tbl, CreatedKey(tbl),
                                 ScanBackward(FALSE)))

\* the pending query without its WHERE clause
SelectPending_NoFilter(tbl) ==
    RowsToTasks(tbl, OrderByDesc(DOMAIN tbl, CreatedKey(tbl), FALSE))

\* the pending query answered by a backward scan of idx_tasks_created_at
SelectPending_ByCreatedIndex(tbl) ==
    RowsToTasks(tbl, OrderByDesc({i \in DOMAIN tbl : tbl[i].status = "pending"},
                                 CreatedKey(tbl), TRUE))

\* SELECT ... FROM tasks WHERE status = 'pending' ORDER BY created_at DESC
SelectPending(tbl) ==
    RowsToTasks(tbl, OrderByDesc({i \in DOMAIN tbl : tbl[i].status = "pending"},
                                 CreatedKey(tbl), ScanBackward(TRUE)))

\* the completed query without its ORDER BY: the rows in rowid order
SelectCompleted_Unordered(tbl) ==
    RowsToTasks(tbl, OrderByDesc({i \in DOMAIN tbl : tbl[i].status = "completed"},
                                 [i \in DOMAIN tbl |-> 0], FALSE))

\* SELECT ... FROM tasks WHERE status = 'completed' ORDER BY completed_at DESC
SelectCompleted(tbl) ==
    RowsToTasks(tbl, OrderByDesc({i \in DOMAIN tbl : tbl[i].status = "completed"},
                                 CompletedKey(tbl), FALSE))

\* SELECT ... FROM tasks WHERE id = ?
SelectById(tbl, id) ==
    IF id \in DOMAIN tbl THEN RowToTask(tbl, id) ELSE [kind |-> "None"]

(* ---------------------- repositories and databases -------------------- *)
\* database_path: two database files and the in-memory database
Memory == ":memory:"
FilePaths == {"a.db", "b.db"}
Paths == FilePaths \cup {Memory}

\* the SQLiteTaskRepository instances a program holds
Repos == {"r1", "r2"}

\* the databases: one per file and, for an in-memory repository, the
\* private database of the connection it holds, named after the instance
Stores == FilePaths \cup Repos

\* a database nothing has been written to
NoStore == [schema |-> NoSchema, rows |-> <<>>, seq |-> 0]

\* self._connection = None
NoConnection == [owner |-> "nobody", store |-> "none", kept |-> FALSE]

\* an instance that has not been constructed
NoRepository == [database_path |-> "none", connection |-> NoConnection]

(* ------------------------------- state --------------------------------- *)
NoTxn == [rows |-> <<>>, seq |-> 0]
NoCursor == [lastrowid |-> 0, rowcount |-> 0]
NoArg == [id |-> 0, description |-> <<>>]
NoOut == [kind |-> "none", op |-> "none", arg |-> NoArg]
NoRace == [op |-> "none", who |-> {}, returned |-> 0, succeeded |-> 0]
\* race.op of a mark_completed and a delete_task in progress together on
\* one pending task
MarkAndDelete == "mark_completed/delete_task"
NoHist == [marks |-> 0, dels |-> 0, doneAt |-> NULL, issued |-> 0]

\* schema:    whether the tasks table exists, and the indexes that exist
\* rows, seq: the committed tasks table and its sqlite_sequence entry
\* lock, txn: the connection holding the write lock and its uncommitted image
\* clock:     the storage clock, in seconds
\* pc, op, arg, cur: per caller, the position in the running operation, the
\*            operation, its argument and its cursor (lastrowid, rowcount)
\* out:       the outcome of the operation that returns in the step into
\*            this state: the operation, its argument and the value returned
\*            or exception raised; NoOut after any other step.  For
\*            mark_completed and delete_task it also tells whether the task
\*            was there (mark_completed) or had been created (delete_task),
\*            how many such calls had committed on it before, and the
\*            status the call found (history)
\* hist:      per id, how many mark_completed and delete_task calls have
\*            committed on the existing task, the completed_at left by the
\*            first mark_completed and how often create_task returned the id
\*            (history)
\* race:      the calls of one operation on one task that are in progress
\*            together, or the mark_completed and the delete_task that are
\*            in progress together on one pending task (with its id), how
\*            many of them have returned and how many have returned true
\*            (history)
\* repos:     per instance, database_path and _connection
\* stores:    per database, its schema, its tasks table and sqlite_sequence
\* conns:     the connections that are open
Init ==
    /\ schema = FullSchema
    /\ rows = <<>>
    /\ seq = 0
    /\ lock = NoCaller
    /\ txn = NoTxn
    /\ clock = 1
    /\ pc = [c \in Callers |-> "idle"]
    /\ op = [c \in Callers |-> "none"]
    /\ arg = [c \in Callers |-> NoArg]
    /\ cur = [c \in Callers |-> NoCursor]
    /\ out = NoOut
    /\ hist = [i \in AllIds |-> NoHist]
    /\ race = NoRace
    /\ repos = [r \in Repos |-> NoRepository]
    /\ stores = [s \in Stores |-> NoStore]
    /\ conns = {}

\* history counters count 0, 1, many
Bump(n) == IF n < 2 THEN n + 1 ELSE n

\* the outcome of operation o called with a
Outcome(o, a, result) == result @@ [op |-> o, arg |-> a]

Succeeded(result) == result.kind = "bool" /\ result.val

\* finishing an operation: the result is handed to the caller and, for a
\* file-backed store, the connection of the operation is closed
Finish(c, result) ==
    /\ pc' = [pc EXCEPT ![c] = "idle"]
    /\ op' = [op EXCEPT ![c] = "none"]
    /\ arg' = [arg EXCEPT ![c] = NoArg]
    /\ cur' = [cur EXCEPT ![c] = NoCursor]
    /\ out' = Outcome(op[c], arg[c], result)
    /\ race' = IF c \in race.who
               THEN [race EXCEPT !.returned = @ + 1,
                                 !.succeeded = IF Succeeded(result)
                                               THEN @ + 1 ELSE @]
               ELSE race

\* entering an operation: self._get_connection() opens a connection
Begin(c, o, a) ==
    /\ pc[c] = "idle"
    /\ pc' = [pc EXCEPT ![c] = "connected"]
    /\ op' = [op EXCEPT ![c] = o]
    /\ arg' = [arg EXCEPT ![c] = a]
    /\ out' = NoOut
    /\ LET same == {k \in Callers \ {c} :
                       pc[k] = "connected" /\ op[k] = o /\ arg[k] = a}
           other == {k \in Callers \ {c} :
                        /\ pc[k] # "idle"
                        /\ {op[k], o} = {"mark_completed", "delete_task"}
                        /\ arg[k].id = a.id}
       IN race' = IF /\ o \in {"mark_completed", "delete_task"}
                     /\ same # {}
                     /\ a.id \in DOMAIN rows
                     /\ (o = "mark_completed" => rows[a.id].status = "pending")
                  THEN [op |-> o, who |-> same \cup {c},
                        returned |-> 0, succeeded |-> 0]
                  ELSE IF /\ other # {}
                          /\ a.id \in DOMAIN rows
                          /\ rows[a.id].status = "pending"
                  THEN [op |-> MarkAndDelete, who |-> other \cup {c},
                        returned |-> 0, succeeded |-> 0, id |-> a.id]
                  ELSE NoRace

\* an operation that runs no write statement: it reads the committed rows
\* through its own connection and returns
Single(c, o, a, result) ==
    /\ pc[c] = "idle"
    /\ out' = Outcome(o, a, result)
    /\ race' = NoRace
    /\ UNCHANGED <<pc, op, arg, cur>>

\* a connection reading the uncommitted rows of another connection
Visible_Uncommitted(c) == IF lock # NoCaller THEN txn.rows ELSE rows

\* the rows a statement on the connection of caller c reads: the committed
\* rows and, for the connection holding the write lock, its own writes
Visible(c) == IF lock = c THEN txn.rows ELSE rows

\* connection.commit(): the image of the transaction becomes the store
Commit ==
    /\ rows' = txn.rows
    /\ seq' = txn.seq
    /\ lock' = NoCaller
    /\ txn' = NoTxn

\* an error handler that ends the transaction by committing it
Rollback_Commits(c) ==
    IF lock = c THEN Commit ELSE UNCHANGED <<rows, seq, lock, txn>>

\* connection.rollback(): the image of the transaction of c, if it has one,
\* is discarded
Rollback(c) ==
    /\ lock' = IF lock = c THEN NoCaller ELSE lock
    /\ txn' = IF lock = c THEN NoTxn ELSE txn
    /\ UNCHANGED <<rows, seq>>

(* ----------------------------- create_task ----------------------------- *)
\* if not description: raise ValueError
InvalidDescription_NoStrip(d) == d = NoDescription \/ d = <<>>

\* if not description or not description.strip(): raise ValueError
InvalidDescription(d) ==
    d = NoDescription \/ d = <<>> \/ Strip(d) = <<>>

\* create_task up to task_id = cursor.lastrowid: validation, then the
\* INSERT on a new connection.  A constraint violation is a sqlite3.Error:
\* rollback, RuntimeError
CreateTaskInsert(c, d) ==
    /\ pc[c] = "idle"
    /\ IF InvalidDescription(d)
       THEN /\ Single(c, "create_task", [id |-> 0, description |-> d],
                      Raise(ValueError))
            /\ UNCHANGED <<lock, txn>>
       ELSE /\ lock = NoCaller
            /\ LET r == SqlInsert(rows, seq, Strip(d), clock)
               IN IF r.ok
                  THEN /\ lock' = c
                       /\ txn' = [rows |-> r.rows, seq |-> r.seq]
                       /\ pc' = [pc EXCEPT ![c] = "executed"]
                       /\ op' = [op EXCEPT ![c] = "create_task"]
                       /\ arg' = [arg EXCEPT ![c] =
                                    [id |-> 0, description |-> d]]
                       /\ cur' = [cur EXCEPT ![c].lastrowid = r.lastrowid]
                       /\ out' = NoOut
                       /\ race' = NoRace
                  ELSE /\ Single(c, "create_task",
                                 [id |-> 0, description |-> d],
                                 StorageError("execute"))
                       /\ UNCHANGED <<lock, txn>>
    /\ UNCHANGED <<schema, rows, seq, clock, hist>>
    /\ UNCHANGED life

\* cursor.execute(SELECT ... WHERE id = ?); row = cursor.fetchone();
\* connection.commit(); return Task(id=row['id'], ..., completed_at=None)
CreateTaskCommit(c) ==
    /\ pc[c] = "executed" /\ op[c] = "create_task"
    /\ lock = c
    /\ LET id == cur[c].lastrowid
           row == txn.rows[id]
           task == Task(id, row.description, row.status,
                        FromIsoFormat(row.created_at), None)
       IN /\ Finish(c, task)
          /\ hist' = [hist EXCEPT ![id].issued = Bump(@)]
    /\ Commit
    /\ UNCHANGED <<schema, clock>>
    /\ UNCHANGED life

(* ---------------------------- mark_completed --------------------------- *)
MarkCompletedBegin(c, id) ==
    /\ Begin(c, "mark_completed", [id |-> id, description |-> <<>>])
    /\ UNCHANGED <<schema, rows, seq, lock, txn, clock, cur, hist>>
    /\ UNCHANGED life

\* cursor.execute(UPDATE ...); rows_affected = cursor.rowcount
MarkCompletedUpdate(c) ==
    /\ pc[c] = "connected" /\ op[c] = "mark_completed"
    /\ lock = NoCaller
    /\ LET r == SqlUpdate(rows, arg[c].id, clock)
       IN IF r.ok
          THEN /\ lock' = c
               /\ txn' = [rows |-> r.rows, seq |-> seq]
               /\ pc' = [pc EXCEPT ![c] = "executed"]
               /\ cur' = [cur EXCEPT ![c].rowcount = r.rowcount]
               /\ out' = NoOut
               /\ UNCHANGED <<op, arg, race>>
          ELSE /\ Finish(c, StorageError("execute"))
               /\ UNCHANGED <<lock, txn>>
    /\ UNCHANGED <<schema, rows, seq, clock, hist>>
    /\ UNCHANGED life

\* return rows_affected >= 0
MarkCompletedResult_Always(rows_affected) == rows_affected >= 0

\* return rows_affected == 1
MarkCompletedResult(rows_affected) == rows_affected = 1

\* connection.commit(); return rows_affected == 1
MarkCompletedCommit(c) ==
    /\ pc[c] = "executed" /\ op[c] = "mark_completed"
    /\ lock = c
    /\ LET id == arg[c].id
           present == id \in DOMAIN rows
       IN /\ Finish(c, [kind |-> "bool",
                        val |-> MarkCompletedResult(cur[c].rowcount),
                        present |-> present,
                        nth |-> IF present THEN hist[id].marks ELSE 0,
                        was |-> IF present THEN rows[id].status ELSE "absent"])
          /\ hist' = IF present
                     THEN [hist EXCEPT ![id].marks = Bump(@),
                                       ![id].doneAt =
                                          IF hist[id].marks = 0
                                          THEN txn.rows[id].completed_at
                                          ELSE @]
                     ELSE hist
    /\ Commit
    /\ UNCHANGED <<schema, clock>>
    /\ UNCHANGED life

(* ------------------------------ delete_task ---------------------------- *)
DeleteTaskBegin(c, id) ==
    /\ Begin(c, "delete_task", [id |-> id, description |-> <<>>])
    /\ UNCHANGED <<schema, rows, seq, lock, txn, clock, cur, hist>>
    /\ UNCHANGED life

\* cursor.execute(DELETE ...); rows_affected = cursor.rowcount
DeleteTaskDelete(c) ==
    /\ pc[c] = "connected" /\ op[c] = "delete_task"
    /\ lock = NoCaller
    /\ LET r == SqlDelete(rows, arg[c].id)
       IN /\ lock' = c
          /\ txn' = [rows |-> r.rows, seq |-> seq]
          /\ pc' = [pc EXCEPT ![c] = "executed"]
          /\ cur' = [cur EXCEPT ![c].rowcount = r.rowcount]
          /\ out' = NoOut
    /\ UNCHANGED <<schema, rows, seq, clock, op, arg, hist, race>>
    /\ UNCHANGED life

\* return rows_affected >= 0
DeleteTaskResult_Always(rows_affected) == rows_affected >= 0

\* return rows_affected == 1
DeleteTaskResult(rows_affected) == rows_affected = 1

\* connection.commit(); return rows_affected == 1
DeleteTaskCommit(c) ==
    /\ pc[c] = "executed" /\ op[c] = "delete_task"
    /\ lock = c
    /\ LET id == arg[c].id
           existing == hist[id].issued > 0
       IN /\ Finish(c, [kind |-> "bool",
                        val |-> DeleteTaskResult(cur[c].rowcount),
                        present |-> existing,
                        nth |-> IF existing THEN hist[id].dels ELSE 0,
                        was |-> IF id \in DOMAIN rows
                                THEN rows[id].status ELSE "absent"])
          /\ hist' = IF existing
                     THEN [hist EXCEPT ![id].dels = Bump(@),
                                       ![id].marks = 0,
                                       ![id].doneAt = NULL]
                     ELSE hist
    /\ Commit
    /\ UNCHANGED <<schema, clock>>
    /\ UNCHANGED life

(* -------------------------------- queries ------------------------------ *)
GetAllTasks(c) ==
    /\ Single(c, "get_all_tasks", NoArg, SelectAll(Visible(c)))
    /\ UNCHANGED <<schema, rows, seq, lock, txn, clock, hist>>
    /\ UNCHANGED life

GetPendingTasks(c) ==
    /\ Single(c, "get_pending_tasks", NoArg, SelectPending(Visible(c)))
    /\ UNCHANGED <<schema, rows, seq, lock, txn, clock, hist>>
    /\ UNCHANGED life

GetCompletedTasks(c) ==
    /\ Single(c, "get_completed_tasks", NoArg,
              SelectCompleted(Visible(c)))
    /\ UNCHANGED <<schema, rows, seq, lock, txn, clock, hist>>
    /\ UNCHANGED life

GetTaskById(c, id) ==
    /\ Single(c, "get_task_by_id", [id |-> id, description |-> <<>>],
              SelectById(Visible(c), id))
    /\ UNCHANGED <<schema, rows, seq, lock, txn, clock, hist>>
    /\ UNCHANGED life

(* --------------------------------- clock ------------------------------- *)
\* a second passes on the storage clock
Tick ==
    /\ clock < MaxClock
    /\ clock' = clock + 1
    /\ out' = NoOut
    /\ UNCHANGED <<schema, rows, seq, lock, txn, pc, op, arg, cur, hist,
                   race>>
    /\ UNCHANGED life

\* the bound on the ids: a description that passes the validation is
\* inserted only while fewer than n ids have been given out
Room(d, n) == InvalidDescription(d) \/ seq < n

Next ==
    \/ \E c \in Callers, d \in Descriptions :
          Room(d, MaxId) /\ CreateTaskInsert(c, d)
    \/ \E c \in Callers : CreateTaskCommit(c)
    \/ \E c \in Callers, id \in Ids : MarkCompletedBegin(c, id)
    \/ \E c \in Callers : MarkCompletedUpdate(c)
    \/ \E c \in Callers : MarkCompletedCommit(c)
    \/ \E c \in Callers, id \in Ids : DeleteTaskBegin(c, id)
    \/ \E c \in Callers : DeleteTaskDelete(c)
    \/ \E c \in Callers : DeleteTaskCommit(c)
    \/ \E c \in Callers : GetAllTasks(c)
    \/ \E c \in Callers : GetPendingTasks(c)
    \/ \E c \in Callers : GetCompletedTasks(c)
    \/ \E c \in Callers, id \in Ids : GetTaskById(c, id)
    \/ Tick

Spec == Init /\ [][Next]_vars

(* ----------------------------- direct writes --------------------------- *)
\* Writers that bypass the repository: another program opens the database
\* file and runs its own INSERT or UPDATE, committing at once.  Only the
\* constraints of the table stand between such a statement and the rows:
\* a row that fails one of them makes the statement fail with
\* sqlite3.IntegrityError, and the statement changes nothing.
DirectStatuses == {"pending", "completed", "archived"}

DirectCompletions == {NULL, CurrentTimestamp(clock)}

DirectDescriptions == Descriptions \ {NoDescription}

\* the history of a task restarts at what a directly written row shows
DirectHist(row) ==
    [marks |-> IF row.status = "pending" THEN 0 ELSE 1, dels |-> 0,
     doneAt |-> row.completed_at, issued |-> 1]

\* what the writer gets back: nothing, or the error of the statement
DirectOutcome(o, id, row, accepted) ==
    Outcome(o, [id |-> id, description |-> row.description,
                status |-> row.status, completed_at |-> row.completed_at],
            IF accepted THEN [kind |-> "done"] ELSE Raise(IntegrityError))

\* INSERT INTO tasks (description, status, created_at, completed_at)
\* VALUES (?, ?, CURRENT_TIMESTAMP, ?)
DirectInsert(d, st, done) ==
    /\ lock = NoCaller
    /\ seq < MaxId
    /\ LET id == NextRowid(rows, seq)
           row == [description |-> d, status |-> st,
                   created_at |-> CurrentTimestamp(clock),
                   completed_at |-> done]
       IN IF TableConstraints(row)
          THEN /\ rows' = [i \in DOMAIN rows \cup {id} |->
                             IF i = id THEN row ELSE rows[i]]
               /\ seq' = id
               /\ hist' = [hist EXCEPT ![id] = DirectHist(row)]
               /\ out' = DirectOutcome("direct_insert", id, row, TRUE)
          ELSE /\ out' = DirectOutcome("direct_insert", 0, row, FALSE)
               /\ UNCHANGED <<rows, seq, hist>>
    /\ race' = NoRace
    /\ UNCHANGED <<schema, lock, txn, clock, pc, op, arg, cur>>
    /\ UNCHANGED life

\* UPDATE tasks SET description = ?, status = ?, completed_at = ?
\* WHERE id = ?
DirectUpdate(id, d, st, done) ==
    /\ lock = NoCaller
    /\ id \in DOMAIN rows
    /\ LET row == [rows[id] EXCEPT !.description = d, !.status = st,
                                   !.completed_at = done]
       IN IF TableConstraints(row)
          THEN /\ rows' = [rows EXCEPT ![id] = row]
               /\ hist' = [hist EXCEPT ![id] = DirectHist(row)]
               /\ out' = DirectOutcome("direct_update", id, row, TRUE)
          ELSE /\ out' = DirectOutcome("direct_update", id, row, FALSE)
               /\ UNCHANGED <<rows, hist>>
    /\ race' = NoRace
    /\ UNCHANGED <<schema, seq, lock, txn, clock, pc, op, arg, cur>>
    /\ UNCHANGED life

\* one caller of the repository next to the direct writers
User == CHOOSE c \in Callers : TRUE

NextDirect ==
    \/ \E d \in Descriptions : Room(d, MaxId) /\ CreateTaskInsert(User, d)
    \/ CreateTaskCommit(User)
    \/ \E id \in Ids : MarkCompletedBegin(User, id)
    \/ MarkCompletedUpdate(User)
    \/ MarkCompletedCommit(User)
    \/ \E id \in Ids : DeleteTaskBegin(User, id)
    \/ DeleteTaskDelete(User)
    \/ DeleteTaskCommit(User)
    \/ GetAllTasks(User)
    \/ GetPendingTasks(User)
    \/ GetCompletedTasks(User)
    \/ \E id \in Ids : GetTaskById(User, id)
    \/ Tick
    \/ \E d \in DirectDescriptions, st \in DirectStatuses,
          done \in DirectCompletions : DirectInsert(d, st, done)
    \/ \E id \in Ids, d \in DirectDescriptions, st \in DirectStatuses,
          done \in DirectCompletions : DirectUpdate(id, d, st, done)

SpecDirect == Init /\ [][NextDirect]_vars

(* --------------------------- storage failures ------------------------- *)
\* The storage engine can fail at any step of an operation: the database
\* file cannot be opened, a statement or the commit meets an I/O error or
\* the busy timeout.
Reads ==
    {"get_all_tasks", "get_pending_tasks", "get_completed_tasks",
     "get_task_by_id"}

Writes == {"create_task", "mark_completed", "delete_task"}

\* the arguments operation o can be called with to reach the storage
ArgsOf(o) ==
    IF o = "create_task"
    THEN {[id |-> 0, description |-> d] :
             d \in {x \in Descriptions : ~InvalidDescription(x)}}
    ELSE IF o \in {"get_all_tasks", "get_pending_tasks", "get_completed_tasks"}
    THEN {NoArg}
    ELSE {[id |-> id, description |-> <<>>] : id \in Ids}

\* connection = self._get_connection() fails.  The call stands before the
\* try statement of every operation: the sqlite3.Error of get_connection
\* reaches the caller as it is
ConnectFails(c, o, a) ==
    /\ Single(c, o, a, ConnectionError)
    /\ UNCHANGED <<schema, rows, seq, lock, txn, clock, hist>>
    /\ UNCHANGED life

\* the SELECT of a query fails: except sqlite3.Error: raise RuntimeError
QueryFails(c, o, a) ==
    /\ o \in Reads
    /\ Single(c, o, a, StorageError("execute"))
    /\ UNCHANGED <<schema, rows, seq, lock, txn, clock, hist>>
    /\ UNCHANGED life

\* the INSERT of create_task fails:
\* except sqlite3.Error: connection.rollback(); raise RuntimeError
CreateTaskInsertFails(c, a) ==
    /\ Single(c, "create_task", a, StorageError("execute"))
    /\ Rollback(c)
    /\ UNCHANGED <<schema, clock, hist>>
    /\ UNCHANGED life

\* the UPDATE of mark_completed or the DELETE of delete_task fails:
\* except sqlite3.Error: connection.rollback(); raise RuntimeError
ExecuteFails(c) ==
    /\ pc[c] = "connected"
    /\ Finish(c, StorageError("execute"))
    /\ Rollback(c)
    /\ UNCHANGED <<schema, clock, hist>>
    /\ UNCHANGED life

\* a step after the write statement fails, the SELECT of create_task or
\* connection.commit():
\* except sqlite3.Error: connection.rollback(); raise RuntimeError
CommitFails(c) ==
    /\ pc[c] = "executed"
    /\ lock = c
    /\ Finish(c, StorageError("commit"))
    /\ Rollback(c)
    /\ UNCHANGED <<schema, clock, hist>>
    /\ UNCHANGED life

NextFault ==
    \/ Next
    \/ \E c \in Callers, o \in Reads \cup Writes :
          \E a \in ArgsOf(o) : ConnectFails(c, o, a)
    \/ \E c \in Callers, o \in Reads : \E a \in ArgsOf(o) : QueryFails(c, o, a)
    \/ \E c \in Callers :
          \E a \in ArgsOf("create_task") : CreateTaskInsertFails(c, a)
    \/ \E c \in Callers : ExecuteFails(c)
    \/ \E c \in Callers : CommitFails(c)

SpecFault == Init /\ [][NextFault]_vars

(* ---------------------------- create_schema --------------------------- *)
\* create_schema(connection), called by SQLiteTaskRepository.__init__
\* through _ensure_schema_exists and by programs that set up a store.
\* sqlite3 opens no transaction for CREATE TABLE and CREATE INDEX: each
\* statement is in the store when it has run, connection.commit() at the end
\* and connection.rollback() in the error handler find no transaction.
\* pc is the statement that ran last; the call remembers the schema it
\* found (history).
SchemaArg == [id |-> 0, description |-> <<>>, before |-> schema]

\* the statement after the one that ran last
NextStatement(last) ==
    Statements[(CHOOSE n \in 1..Len(Statements) : Statements[n] = last) + 1]

\* cursor.execute(CREATE TABLE IF NOT EXISTS tasks ...)
CreateSchemaTable(c) ==
    /\ pc[c] = "idle"
    /\ Exists(schema, "tasks") \/ lock = NoCaller
    /\ LET r == CreateIfNotExists(schema, "tasks")
       IN IF r.ok
          THEN /\ schema' = r.schema
               /\ pc' = [pc EXCEPT ![c] = "tasks"]
               /\ op' = [op EXCEPT ![c] = "create_schema"]
               /\ arg' = [arg EXCEPT ![c] = SchemaArg]
               /\ out' = NoOut
               /\ race' = NoRace
               /\ UNCHANGED cur
          ELSE /\ Single(c, "create_schema", SchemaArg,
                         SchemaError("statement"))
               /\ UNCHANGED schema
    /\ UNCHANGED <<rows, seq, lock, txn, clock, hist>>
    /\ UNCHANGED life

\* create_indexes(cursor): the next CREATE INDEX IF NOT EXISTS ...
CreateSchemaIndex(c) ==
    /\ op[c] = "create_schema"
    /\ pc[c] \in {Statements[n] : n \in 1..Len(Statements) - 1}
    /\ Exists(schema, NextStatement(pc[c])) \/ lock = NoCaller
    /\ LET r == CreateIfNotExists(schema, NextStatement(pc[c]))
       IN IF r.ok
          THEN /\ schema' = r.schema
               /\ pc' = [pc EXCEPT ![c] = NextStatement(pc[c])]
               /\ out' = NoOut
               /\ UNCHANGED <<op, arg, cur, race>>
          ELSE /\ Finish(c, SchemaError("statement"))
               /\ UNCHANGED schema
    /\ UNCHANGED <<rows, seq, lock, txn, clock, hist>>
    /\ UNCHANGED life

\* connection.commit(); create_schema returns
CreateSchemaCommit(c) ==
    /\ op[c] = "create_schema"
    /\ pc[c] = Statements[Len(Statements)]
    /\ Finish(c, [kind |-> "None"])
    /\ UNCHANGED <<schema, rows, seq, lock, txn, clock, hist>>
    /\ UNCHANGED life

\* the storage fails in CREATE TABLE:
\* except sqlite3.Error: connection.rollback(); raise sqlite3.Error
CreateSchemaTableFails(c) ==
    /\ Single(c, "create_schema", SchemaArg, SchemaError("storage"))
    /\ Rollback(c)
    /\ UNCHANGED <<schema, clock, hist>>
    /\ UNCHANGED life

\* the storage fails in a CREATE INDEX or in connection.commit():
\* except sqlite3.Error: connection.rollback(); raise sqlite3.Error
CreateSchemaFails(c) ==
    /\ op[c] = "create_schema"
    /\ Finish(c, SchemaError("storage"))
    /\ Rollback(c)
    /\ UNCHANGED <<schema, clock, hist>>
    /\ UNCHANGED life

\* a statement of a repository operation on a store without the tasks
\* table: sqlite3.OperationalError("no such table: tasks"), handled as
\* except sqlite3.Error: [connection.rollback();] raise RuntimeError
NoSuchTable(c, o, a) ==
    /\ ~schema.table
    /\ Single(c, o, a, StorageError("execute"))
    /\ Rollback(c)
    /\ UNCHANGED <<schema, clock, hist>>
    /\ UNCHANGED life

\* a store before the first create_schema
InitFresh ==
    /\ schema = NoSchema
    /\ rows = <<>>
    /\ seq = 0
    /\ lock = NoCaller
    /\ txn = NoTxn
    /\ clock = 1
    /\ pc = [c \in Callers |-> "idle"]
    /\ op = [c \in Callers |-> "none"]
    /\ arg = [c \in Callers |-> NoArg]
    /\ cur = [c \in Callers |-> NoCursor]
    /\ out = NoOut
    /\ hist = [i \in AllIds |-> NoHist]
    /\ race = NoRace
    /\ repos = [r \in Repos |-> NoRepository]
    /\ stores = [s \in Stores |-> NoStore]
    /\ conns = {}

\* one thread that sets up the store, any number of times, and uses it
NextSchema ==
    \/ CreateSchemaTable(User)
    \/ CreateSchemaIndex(User)
    \/ CreateSchemaCommit(User)
    \/ CreateSchemaTableFails(User)
    \/ CreateSchemaFails(User)
    \/ \E o \in Reads \cup Writes :
          \E a \in ArgsOf(o) : NoSuchTable(User, o, a)
    \/ \E d \in Descriptions :
          /\ schema.table \/ InvalidDescription(d)
          /\ Room(d, MaxId)
          /\ CreateTaskInsert(User, d)
    \/ CreateTaskCommit(User)
    \/ \E id \in Ids : schema.table /\ MarkCompletedBegin(User, id)
    \/ MarkCompletedUpdate(User)
    \/ MarkCompletedCommit(User)
    \/ \E id \in Ids : schema.table /\ DeleteTaskBegin(User, id)
    \/ DeleteTaskDelete(User)
    \/ DeleteTaskCommit(User)
    \/ schema.table /\ GetAllTasks(User)
    \/ schema.table /\ GetPendingTasks(User)
    \/ schema.table /\ GetCompletedTasks(User)
    \/ \E id \in Ids : schema.table /\ GetTaskById(User, id)
    \/ Tick

SpecSchema == InitFresh /\ [][NextSchema]_vars

(* ------------------------------ controller ----------------------------- *)
\* What StreamlitUIController hands to the UI for the outcome of the
\* repository call it made.
\* complete_task: try: return self.repository.mark_completed(task_id)
\*                except RuntimeError: return False
CompleteTask(result) ==
    IF result.kind = RuntimeError
    THEN [kind |-> "bool", val |-> FALSE] ELSE result

\* delete_task: try: return self.repository.delete_task(task_id)
\*              except RuntimeError: return False
ControllerDeleteTask(result) ==
    IF result.kind = RuntimeError
    THEN [kind |-> "bool", val |-> FALSE] ELSE result

\* get_tasks_for_view: return self.repository.get_..._tasks()
GetTasksForView(result) == result

\* create_new_task, after validate_task_form passed:
\* try: self.repository.create_task(...); return True
\* except (ValueError, RuntimeError): form_data.error_message = ...;
\*                                    return False
CreateNewTask(result) ==
    IF result.kind \in {ValueError, RuntimeError}
    THEN [kind |-> "bool", val |-> FALSE, error_message |-> "Failed"]
    ELSE IF result.kind = "Task"
    THEN [kind |-> "bool", val |-> TRUE, error_message |-> "None"]
    ELSE result

\* the repository calls the controller makes; create_new_task passes only
\* a stripped description that TaskFormData.validate accepted
ControllerCalls(o) ==
    /\ o.op \in Writes \cup {"get_all_tasks", "get_pending_tasks",
                             "get_completed_tasks"}
    /\ o.op = "create_task" =>
          /\ o.arg.description # NoDescription
          /\ Strip(o.arg.description) = o.arg.description
          /\ o.arg.description # <<>>

Controller(o) ==
    CASE o.op = "create_task" -> CreateNewTask(o)
      [] o.op = "mark_completed" -> CompleteTask(o)
      [] o.op = "delete_task" -> ControllerDeleteTask(o)
      [] OTHER -> GetTasksForView(o)

(* --------------------------- one caller -------------------------------- *)
\* One thread calling the repository: every call returns before the next
\* one starts.  It creates up to MaxTasks tasks.
SeqIds == 1..MaxTasks

NextSeq ==
    \/ \E d \in Descriptions :
          Room(d, MaxTasks) /\ CreateTaskInsert(User, d)
    \/ CreateTaskCommit(User)
    \/ \E id \in SeqIds : MarkCompletedBegin(User, id)
    \/ MarkCompletedUpdate(User)
    \/ MarkCompletedCommit(User)
    \/ \E id \in SeqIds : DeleteTaskBegin(User, id)
    \/ DeleteTaskDelete(User)
    \/ DeleteTaskCommit(User)
    \/ GetAllTasks(User)
    \/ GetPendingTasks(User)
    \/ GetCompletedTasks(User)
    \/ \E id \in SeqIds : GetTaskById(User, id)
    \/ Tick

SpecSeq == Init /\ [][NextSeq]_vars

(* --------------------------- Task construction ------------------------- *)
\* Task(...) called directly, as the tests and any other program can call
\* it: the dataclass takes whatever values it is given (the annotations are
\* not checked at run time) and __post_init__ decides.
\* id 0 stands for id=None, a task that is not stored yet
TaskIds == 0..MaxId

Timestamps == {Strptime(CurrentTimestamp(n)) : n \in 1..MaxClock}

TaskInputs ==
    [id : TaskIds, description : Descriptions, status : DirectStatuses,
     created_at : Timestamps, completed_at : {None} \cup Timestamps]

\* the arguments of a construction that has not run yet
InitTask ==
    /\ schema = FullSchema
    /\ rows = <<>>
    /\ seq = 0
    /\ lock = NoCaller
    /\ txn = NoTxn
    /\ clock = 1
    /\ pc = [c \in Callers |-> "idle"]
    /\ op = [c \in Callers |-> "none"]
    /\ arg = [c \in Callers |-> NoArg]
    /\ cur = [c \in Callers |-> NoCursor]
    /\ out \in {[kind |-> "input", op |-> "Task", arg |-> a] : a \in TaskInputs}
    /\ hist = [i \in AllIds |-> NoHist]
    /\ race = NoRace
    /\ repos = [r \in Repos |-> NoRepository]
    /\ stores = [s \in Stores |-> NoStore]
    /\ conns = {}

\* Task(id=..., description=..., status=..., created_at=..., completed_at=...)
Construct ==
    /\ out.kind = "input"
    /\ out' = Outcome("Task", out.arg,
                      Task(out.arg.id, out.arg.description, out.arg.status,
                           out.arg.created_at, out.arg.completed_at))
    /\ UNCHANGED <<schema, rows, seq, lock, txn, clock, pc, op, arg, cur,
                   hist, race>>
    /\ UNCHANGED life

NextTask == Construct

SpecTask == InitTask /\ [][NextTask]_vars

(* ------------------------- repository instances ------------------------ *)
\* A program that holds SQLiteTaskRepository instances on database files
\* and on in-memory databases and calls them from one thread: every call
\* runs from self._get_connection() to its finally clause before the next
\* one starts.  sqlite3.connect(path) on a file opens the database of the
\* file, which is there whether a connection is open or not;
\* sqlite3.connect(":memory:") makes a new, empty database that belongs to
\* the connection and is gone when the connection is closed.
\* create_schema does not fail here: a database has no schema or all of it,
\* and the planner finds the indexes of FullSchema (the variable schema).

\* a repository that opens the same database file whatever path it is given
Database_Default(r, path) == "a.db"

\* a repository whose connections each have a database of their own, as if
\* every path were ":memory:"
Database_PerInstance(r, path) == r

\* sqlite3.connect(database_path): the database a connection of instance r
\* is opened on
Database(r, path) == IF path = Memory THEN r ELSE path

\* no connection is kept
KeepAlive_Never(path) == FALSE

\* if database_path == ":memory:": self._connection = get_connection(...)
KeepAlive(path) == path = Memory

\* create_schema(connection): the four statements in their order
RECURSIVE RunStatements(_, _)
RunStatements(sch, n) ==
    IF n > Len(Statements) THEN sch
    ELSE RunStatements(CreateIfNotExists(sch, Statements[n]).schema, n + 1)

\* self._get_connection(): the connection kept, or a new one
GetConnection(r) ==
    IF repos[r].connection # NoConnection THEN repos[r].connection
    ELSE [owner |-> r, store |-> Database(r, repos[r].database_path),
          kept |-> FALSE]

\* finally: if not self._connection: close_connection(connection)
ClosedAfter(r) == repos[r].connection = NoConnection

\* an in-memory database that outlives its connection
AfterClose_Persistent(store, content) == content

\* the database of a connection that is closed: that of a file stays,
\* an in-memory one is gone
AfterClose(store, content) ==
    IF store \in FilePaths THEN content ELSE NoStore

\* what the caller of instance r gets back, with the connection the call
\* worked on (history)
RepoOutcome(r, o, a, result, conn) ==
    Outcome(o, a, result) @@ [by |-> r, via |-> conn]

\* SQLiteTaskRepository.__init__(database_path, auto_create_schema)
RepositoryInit(r, path, auto) ==
    /\ repos[r] = NoRepository
    /\ LET conn == [owner |-> r, store |-> Database(r, path),
                    kept |-> KeepAlive(path)]
           old == stores[conn.store]
           new == IF auto
                  THEN [old EXCEPT !.schema = RunStatements(@, 1)] ELSE old
       IN /\ repos' = [repos EXCEPT ![r] =
                         [database_path |-> path,
                          connection |-> IF conn.kept THEN conn
                                         ELSE NoConnection]]
          /\ conns' = IF conn.kept THEN conns \cup {conn} ELSE conns
          /\ stores' = [stores EXCEPT ![conn.store] =
                           IF conn.kept THEN new
                           ELSE AfterClose(conn.store, new)]
          /\ out' = RepoOutcome(r, "__init__",
                                [id |-> 0, description |-> <<>>,
                                 database_path |-> path,
                                 auto_create_schema |-> auto],
                                [kind |-> "None"], conn)
    /\ race' = NoRace
    /\ UNCHANGED <<schema, rows, seq, lock, txn, clock, pc, op, arg, cur,
                   hist>>

\* a close() without the test of self._connection: closing what is None
\* raises AttributeError
Close_Unguarded(r) ==
    /\ repos[r] # NoRepository
    /\ LET conn == repos[r].connection
       IN /\ IF conn # NoConnection
             THEN /\ conns' = conns \ {conn}
                  /\ stores' = [stores EXCEPT ![conn.store] =
                                   AfterClose(conn.store, @)]
                  /\ repos' = [repos EXCEPT ![r].connection = NoConnection]
             ELSE UNCHANGED <<repos, stores, conns>>
          /\ out' = RepoOutcome(r, "close", NoArg,
                                IF conn # NoConnection THEN [kind |-> "None"]
                                ELSE Raise("AttributeError"), conn)
    /\ race' = NoRace
    /\ UNCHANGED <<schema, rows, seq, lock, txn, clock, pc, op, arg, cur,
                   hist>>

\* SQLiteTaskRepository.close (and __exit__)
Close(r) ==
    /\ repos[r] # NoRepository
    /\ LET conn == repos[r].connection
       IN /\ IF conn # NoConnection
             THEN /\ conns' = conns \ {conn}
                  /\ stores' = [stores EXCEPT ![conn.store] =
                                   AfterClose(conn.store, @)]
                  /\ repos' = [repos EXCEPT ![r].connection = NoConnection]
             ELSE UNCHANGED <<repos, stores, conns>>
          /\ out' = RepoOutcome(r, "close", NoArg, [kind |-> "None"], conn)
    /\ race' = NoRace
    /\ UNCHANGED <<schema, rows, seq, lock, txn, clock, pc, op, arg, cur,
                   hist>>

\* an operation of instance r that reached the storage: it returns result
\* and leaves tbl and seqv in the database of its connection; the finally
\* clause closes the connection unless it is the one kept
Operate(r, o, a, result, tbl, seqv) ==
    /\ repos[r] # NoRepository
    /\ LET conn == GetConnection(r)
           new == [stores[conn.store] EXCEPT !.rows = tbl, !.seq = seqv]
       IN /\ stores' = [stores EXCEPT ![conn.store] =
                           IF ClosedAfter(r) THEN AfterClose(conn.store, new)
                           ELSE new]
          /\ conns' = IF ClosedAfter(r) THEN conns \ {conn}
                      ELSE conns \cup {conn}
          /\ out' = RepoOutcome(r, o, a, result, conn)
    /\ race' = NoRace
    /\ UNCHANGED <<repos, schema, rows, seq, lock, txn, clock, pc, op, arg,
                   cur, hist>>

\* the database the next operation of instance r works on
Reached(r) == stores[GetConnection(r).store]

\* a statement on a database without the tasks table fails:
\* except sqlite3.Error: raise RuntimeError
OnTable(r, result) ==
    IF Reached(r).schema.table THEN result ELSE StorageError("execute")

\* SQLiteTaskRepository.create_task
RepoCreateTask(r, d) ==
    /\ repos[r] # NoRepository
    /\ LET a == [id |-> 0, description |-> d]
           st == Reached(r)
           ins == SqlInsert(st.rows, st.seq, Strip(d), clock)
           row == ins.rows[ins.lastrowid]
       IN IF InvalidDescription(d)
          THEN /\ out' = RepoOutcome(r, "create_task", a, Raise(ValueError),
                                     NoConnection)
               /\ race' = NoRace
               /\ UNCHANGED <<schema, rows, seq, lock, txn, clock, pc, op,
                              arg, cur, hist, life>>
          ELSE IF st.schema.table /\ ins.ok
          THEN Operate(r, "create_task", a,
                       Task(ins.lastrowid, row.description, row.status,
                            FromIsoFormat(row.created_at), None),
                       ins.rows, ins.seq)
          ELSE Operate(r, "create_task", a, StorageError("execute"),
                       st.rows, st.seq)

\* SQLiteTaskRepository.mark_completed
RepoMarkCompleted(r, id) ==
    /\ repos[r] # NoRepository
    /\ LET st == Reached(r)
           upd == SqlUpdate(st.rows, id, clock)
       IN IF st.schema.table /\ upd.ok
          THEN Operate(r, "mark_completed", [id |-> id, description |-> <<>>],
                       [kind |-> "bool",
                        val |-> MarkCompletedResult(upd.rowcount)],
                       upd.rows, st.seq)
          ELSE Operate(r, "mark_completed", [id |-> id, description |-> <<>>],
                       StorageError("execute"), st.rows, st.seq)

\* SQLiteTaskRepository.delete_task
RepoDeleteTask(r, id) ==
    /\ repos[r] # NoRepository
    /\ LET st == Reached(r)
           del == SqlDelete(st.rows, id)
       IN IF st.schema.table
          THEN Operate(r, "delete_task", [id |-> id, description |-> <<>>],
                       [kind |-> "bool",
                        val |-> DeleteTaskResult(del.rowcount)],
                       del.rows, st.seq)
          ELSE Operate(r, "delete_task", [id |-> id, description |-> <<>>],
                       StorageError("execute"), st.rows, st.seq)

\* SQLiteTaskRepository.get_all_tasks
RepoGetAllTasks(r) ==
    /\ repos[r] # NoRepository
    /\ Operate(r, "get_all_tasks", NoArg,
               OnTable(r, SelectAll(Reached(r).rows)),
               Reached(r).rows, Reached(r).seq)

\* SQLiteTaskRepository.get_pending_tasks
RepoGetPendingTasks(r) ==
    /\ repos[r] # NoRepository
    /\ Operate(r, "get_pending_tasks", NoArg,
               OnTable(r, SelectPending(Reached(r).rows)),
               Reached(r).rows, Reached(r).seq)

\* SQLiteTaskRepository.get_completed_tasks
RepoGetCompletedTasks(r) ==
    /\ repos[r] # NoRepository
    /\ Operate(r, "get_completed_tasks", NoArg,
               OnTable(r, SelectCompleted(Reached(r).rows)),
               Reached(r).rows, Reached(r).seq)

\* SQLiteTaskRepository.get_task_by_id
RepoGetTaskById(r, id) ==
    /\ repos[r] # NoRepository
    /\ Operate(r, "get_task_by_id", [id |-> id, description |-> <<>>],
               OnTable(r, SelectById(Reached(r).rows, id)),
               Reached(r).rows, Reached(r).seq)

\* the ids given out in all databases together
RECURSIVE Issued(_)
Issued(S) ==
    IF S = {} THEN 0
    ELSE LET s == CHOOSE x \in S : TRUE
         IN stores[s].seq + Issued(S \ {s})

NextRepo ==
    \/ \E r \in Repos, path \in Paths, auto \in BOOLEAN :
          RepositoryInit(r, path, auto)
    \/ \E r \in Repos : Close(r)
    \/ \E r \in Repos, d \in Descriptions :
          /\ InvalidDescription(d) \/ Issued(Stores) < MaxId
          /\ RepoCreateTask(r, d)
    \/ \E r \in Repos, id \in Ids : RepoMarkCompleted(r, id)
    \/ \E r \in Repos, id \in Ids : RepoDeleteTask(r, id)
    \/ \E r \in Repos : RepoGetAllTasks(r)
    \/ \E r \in Repos : RepoGetPendingTasks(r)
    \/ \E r \in Repos : RepoGetCompletedTasks(r)
    \/ \E r \in Repos, id \in Ids : RepoGetTaskById(r, id)
    \/ Tick

SpecRepo == Init /\ [][NextRepo]_vars

(* ------------------- repository instances, storage failing ------------- *)
\* The operations of the instances next to the failures of the storage
\* under a file-backed instance.  get_connection (connection.py:23-40)
\* fails in sqlite3.connect, and then there is no connection, or in one of
\* the three PRAGMA statements that follow it, and then the connection that
\* sqlite3.connect returned is open: the except clause raises sqlite3.Error
\* without closing it.  A failure inside the try statement of an operation
\* is followed by its finally clause.
\* the steps of get_connection and of __init__ at which the storage fails
ConnectSteps == {"connect", "configure"}
InitSteps == ConnectSteps \cup {"schema"}

\* the connection get_connection leaves behind when it fails at step at
LeftOpen(conn, at) == IF at = "configure" THEN {conn} ELSE {}

\* connection = self._get_connection() of a file-backed instance fails
RepoConnectFails(r, o, a, at) ==
    /\ repos[r] # NoRepository
    /\ repos[r].database_path \in FilePaths
    /\ LET conn == GetConnection(r)
       IN /\ conns' = conns \cup LeftOpen(conn, at)
          /\ out' = RepoOutcome(r, o, a, ConnectionError,
                                IF at = "connect" THEN NoConnection ELSE conn)
    /\ race' = NoRace
    /\ UNCHANGED <<repos, stores, schema, rows, seq, lock, txn, clock, pc, op,
                   arg, cur, hist>>

\* a statement or the commit of an operation fails:
\* except sqlite3.Error: [connection.rollback();] raise RuntimeError
\* finally: if not self._connection: close_connection(connection)
RepoExecuteFails(r, o, a) ==
    /\ repos[r] # NoRepository
    /\ Operate(r, o, a, StorageError("execute"),
               Reached(r).rows, Reached(r).seq)

\* SQLiteTaskRepository(database_path) on a file fails in
\* _ensure_schema_exists: in get_connection, or in the first statement of
\* create_schema, after which the finally clause closes the connection.
\* The exception leaves __init__ and there is no instance
RepositoryInitFails(r, path, at) ==
    /\ repos[r] = NoRepository
    /\ path \in FilePaths
    /\ LET conn == [owner |-> r, store |-> Database(r, path),
                    kept |-> KeepAlive(path)]
       IN /\ conns' = conns \cup LeftOpen(conn, at)
          /\ out' = RepoOutcome(r, "__init__",
                                [id |-> 0, description |-> <<>>,
                                 database_path |-> path,
                                 auto_create_schema |-> TRUE],
                                IF at = "schema" THEN SchemaError("storage")
                                ELSE ConnectionError,
                                IF at = "connect" THEN NoConnection ELSE conn)
    /\ race' = NoRace
    /\ UNCHANGED <<repos, stores, schema, rows, seq, lock, txn, clock, pc, op,
                   arg, cur, hist>>

\* one file-backed instance and its failures
Holder == CHOOSE r \in Repos : TRUE

NextRepoFault ==
    \/ \E path \in FilePaths, auto \in BOOLEAN :
          RepositoryInit(Holder, path, auto)
    \/ Close(Holder)
    \/ \E d \in Descriptions :
          /\ InvalidDescription(d) \/ Issued(Stores) < MaxId
          /\ RepoCreateTask(Holder, d)
    \/ \E id \in Ids : RepoMarkCompleted(Holder, id)
    \/ \E id \in Ids : RepoDeleteTask(Holder, id)
    \/ RepoGetAllTasks(Holder)
    \/ RepoGetPendingTasks(Holder)
    \/ RepoGetCompletedTasks(Holder)
    \/ \E id \in Ids : RepoGetTaskById(Holder, id)
    \/ \E o \in Reads \cup Writes, at \in ConnectSteps :
          \E a \in ArgsOf(o) : RepoConnectFails(Holder, o, a, at)
    \/ \E o \in Reads \cup Writes :
          \E a \in ArgsOf(o) : RepoExecuteFails(Holder, o, a)
    \/ \E path \in FilePaths, at \in InitSteps :
          RepositoryInitFails(Holder, path, at)
    \/ Tick

SpecRepoFault == Init /\ [][NextRepoFault]_vars

(* --------------------------- the UI controller ------------------------- *)
\* StreamlitUIController over a file-backed repository, called by the one
\* script run of a session: every call of the controller, with the
\* repository call it makes, returns before the next one starts.  The
\* outcome of a call tells which repository operations it called (history)
\* and, for create_new_task, what it left in the form.
\* ViewMode
ViewModes == {"active_tasks", "completed_tasks", "all_tasks"}

\* if len(description) > 500
MaxDescription == 500

\* a string of n characters ch
Rep(ch, n) == [i \in 1..n |-> ch]

\* TaskFormData.description: the short strings and strings around the
\* limit, with and without surrounding whitespace
FormDescriptions ==
    (Descriptions \ {NoDescription})
    \cup {Rep("a", MaxDescription), Rep("a", MaxDescription + 1),
          <<" ">> \o Rep("a", MaxDescription) \o <<" ">>,
          <<" ">> \o Rep("a", MaxDescription + 1),
          Rep(" ", MaxDescription + 1)}

\* a controller that shows all tasks in every view
ViewQuery_AllOnly(view_mode) == "get_all_tasks"

\* get_tasks_for_view: the repository query of a view mode
ViewQuery(view_mode) ==
    IF view_mode = "active_tasks" THEN "get_pending_tasks"
    ELSE IF view_mode = "completed_tasks" THEN "get_completed_tasks"
    ELSE "get_all_tasks"

\* the query o of the repository on the table
RepositoryQuery(o, tbl) ==
    CASE o = "get_pending_tasks" -> SelectPending(tbl)
      [] o = "get_completed_tasks" -> SelectCompleted(tbl)
      [] o = "get_all_tasks" -> SelectAll(tbl)

\* a validation that only refuses the empty description
Validate_NoLimit(d) ==
    IF Strip(d) = <<>>
    THEN [is_valid |-> FALSE,
          error_message |-> "Task description cannot be empty"]
    ELSE [is_valid |-> TRUE, error_message |-> "None"]

\* TaskFormData.validate: is_valid and error_message of the form
Validate(d) ==
    LET description == Strip(d)
    IN IF description = <<>>
       THEN [is_valid |-> FALSE,
             error_message |-> "Task description cannot be empty"]
       ELSE IF Len(description) > MaxDescription
       THEN [is_valid |-> FALSE,
             error_message |->
                "Task description must be 500 characters or less"]
       ELSE [is_valid |-> TRUE, error_message |-> "None"]

\* SQLiteTaskRepository.create_task from its first to its last statement:
\* what it returns or raises, and the table and sqlite_sequence it leaves
CreateTaskCall(tbl, seqv, d, now) ==
    IF InvalidDescription(d)
    THEN [result |-> Raise(ValueError), rows |-> tbl, seq |-> seqv]
    ELSE LET ins == SqlInsert(tbl, seqv, Strip(d), now)
             row == ins.rows[ins.lastrowid]
         IN IF ins.ok
            THEN [result |-> Task(ins.lastrowid, row.description, row.status,
                                  FromIsoFormat(row.created_at), None),
                  rows |-> ins.rows, seq |-> ins.seq]
            ELSE [result |-> StorageError("execute"),
                  rows |-> tbl, seq |-> seqv]

\* what the UI gets back from operation o of the controller, with the
\* repository operations the controller called (history)
UiOutcome(o, a, result, calls) == Outcome(o, a, result) @@ [calls |-> calls]

\* StreamlitUIController.get_tasks_for_view
UiGetTasksForView(view_mode) ==
    /\ lock = NoCaller
    /\ LET q == ViewQuery(view_mode)
       IN out' = UiOutcome("get_tasks_for_view",
                           [id |-> 0, description |-> <<>>,
                            view_mode |-> view_mode],
                           GetTasksForView(RepositoryQuery(q, rows)), <<q>>)
    /\ race' = NoRace
    /\ UNCHANGED <<schema, rows, seq, lock, txn, clock, pc, op, arg, cur,
                   hist>>
    /\ UNCHANGED life

\* StreamlitUIController.create_new_task
UiCreateNewTask(d) ==
    /\ lock = NoCaller
    /\ LET a == [id |-> 0, description |-> d]
           form == Validate(d)
           call == CreateTaskCall(rows, seq, Strip(d), clock)
       IN IF ~form.is_valid
          THEN /\ out' = UiOutcome("create_new_task", a,
                                   [kind |-> "bool", val |-> FALSE,
                                    error_message |-> form.error_message,
                                    is_valid |-> FALSE], <<>>)
               /\ UNCHANGED <<rows, seq>>
          ELSE /\ out' = UiOutcome("create_new_task", a,
                                   CreateNewTask(call.result)
                                      @@ [is_valid |-> TRUE],
                                   <<"create_task">>)
               /\ rows' = call.rows
               /\ seq' = call.seq
    /\ race' = NoRace
    /\ UNCHANGED <<schema, lock, txn, clock, pc, op, arg, cur, hist>>
    /\ UNCHANGED life

\* StreamlitUIController.complete_task
UiCompleteTask(id) ==
    /\ lock = NoCaller
    /\ LET upd == SqlUpdate(rows, id, clock)
           result == IF upd.ok
                     THEN [kind |-> "bool",
                           val |-> MarkCompletedResult(upd.rowcount)]
                     ELSE StorageError("execute")
       IN /\ out' = UiOutcome("complete_task",
                              [id |-> id, description |-> <<>>],
                              CompleteTask(result), <<"mark_completed">>)
          /\ rows' = upd.rows
    /\ race' = NoRace
    /\ UNCHANGED <<schema, seq, lock, txn, clock, pc, op, arg, cur, hist>>
    /\ UNCHANGED life

\* StreamlitUIController.delete_task
UiDeleteTask(id) ==
    /\ lock = NoCaller
    /\ LET del == SqlDelete(rows, id)
       IN /\ out' = UiOutcome("delete_task",
                              [id |-> id, description |-> <<>>],
                              ControllerDeleteTask(
                                 [kind |-> "bool",
                                  val |-> DeleteTaskResult(del.rowcount)]),
                              <<"delete_task">>)
          /\ rows' = del.rows
    /\ race' = NoRace
    /\ UNCHANGED <<schema, seq, lock, txn, clock, pc, op, arg, cur, hist>>
    /\ UNCHANGED life

NextUi ==
    \/ \E view_mode \in ViewModes : UiGetTasksForView(view_mode)
    \/ \E d \in FormDescriptions :
          /\ ~Validate(d).is_valid \/ seq < MaxId
          /\ UiCreateNewTask(d)
    \/ \E id \in Ids : UiCompleteTask(id)
    \/ \E id \in Ids : UiDeleteTask(id)
    \/ Tick

SpecUi == Init /\ [][NextUi]_vars

(* ------------------------------- claims -------------------------------- *)
\* the tasks of a returned list
TasksOf(result) == {result.val[n] : n \in 1..Len(result.val)}

\* the ids of the tasks of a returned list
IdsOf(result) == {t.id : t \in TasksOf(result)}

\* a description that is null, empty or made of whitespace only
Blank(d) == d = NoDescription \/ \A n \in 1..Len(d) : d[n] = " "

\* a description without its leading and trailing whitespace
Trimmed(d) ==
    LET solid == {n \in 1..Len(d) : d[n] # " "}
    IN IF solid = {} THEN <<>>
       ELSE SubSeq(d, CHOOSE n \in solid : \A m \in solid : n <= m,
                      CHOOSE n \in solid : \A m \in solid : m <= n)

Consistent(status, completed_at, null) ==
    (status = "pending") <=> (completed_at = null)

\* the stored ids with the given status
WithStatus(st) == {i \in DOMAIN rows : rows[i].status = st}

\* the outcome of a call in which the storage failed
Failed(o) == "at" \in DOMAIN o

\* a returned Task shows what has been committed: its task was created by
\* a create_task that committed, no delete_task has committed on it, and it
\* is completed exactly if a mark_completed has committed on it
Committed(t) ==
    /\ hist[t.id].issued > 0
    /\ hist[t.id].dels = 0
    /\ t.status = "completed" <=> hist[t.id].marks > 0

\* a returned list holds no task twice
NoDuplicates(result) == Cardinality(IdsOf(result)) = Len(result.val)

\* C1: of the mark_completed calls on an existing task, exactly the first
\* returns true, every later one returns false without raising, and the
\* stored completed_at stays the value the first call set.
C1_MarkCompletedOnce ==
    /\ out.op = "mark_completed" =>
          /\ out.kind = "bool"
          /\ out.present => (out.val <=> out.nth = 0)
    /\ \A id \in DOMAIN rows :
          hist[id].marks > 0 => rows[id].completed_at = hist[id].doneAt

\* a later mark_completed on a completed task returned false, a second after
\* the completion
C1_Witness ==
    /\ out.op = "mark_completed" /\ out.kind = "bool"
    /\ out.present /\ out.nth > 0 /\ ~out.val
    /\ rows[out.arg.id].completed_at.text < clock

\* C2: every stored row, committed or not, and every returned Task has
\* status pending exactly if completed_at is null; direct writes included.
C2_StatusIffCompletedAt ==
    /\ \A id \in DOMAIN rows :
          Consistent(rows[id].status, rows[id].completed_at, NULL)
    /\ \A id \in DOMAIN txn.rows :
          Consistent(txn.rows[id].status, txn.rows[id].completed_at, NULL)
    /\ out.kind = "Task" => Consistent(out.status, out.completed_at, None)
    /\ out.kind = "list" =>
          \A t \in TasksOf(out) : Consistent(t.status, t.completed_at, None)

\* a query returned a completed and a pending task
C2_Witness ==
    /\ out.op = "get_all_tasks" /\ out.kind = "list"
    /\ \E t \in TasksOf(out) : t.status = "completed" /\ t.completed_at # None
    /\ \E t \in TasksOf(out) : t.status = "pending" /\ t.completed_at = None

\* C3: of two mark_completed calls in progress together on one pending
\* task, never both return true, and once both have returned exactly one
\* has returned true.
C3_OneCompletionWins ==
    race.op = "mark_completed" =>
        /\ race.succeeded <= 1
        /\ race.returned = Cardinality(race.who) => race.succeeded = 1

\* both calls of such a pair have returned
C3_Witness ==
    /\ race.op = "mark_completed"
    /\ Cardinality(race.who) = 2 /\ race.returned = 2

\* C4: of two delete_task calls in progress together on one existing task,
\* at most one returns true.
C4_OneDeletionWins ==
    race.op = "delete_task" => race.succeeded <= 1

\* both calls of such a pair have returned, one of them true
C4_Witness ==
    /\ race.op = "delete_task"
    /\ Cardinality(race.who) = 2 /\ race.returned = 2 /\ race.succeeded = 1

\* C5: of the delete_task calls on a created task, exactly the first returns
\* true and every later one false; once a delete has committed the task is
\* in no stored row, in no returned list, and get_task_by_id returns null.
C5_DeleteOnce ==
    /\ out.op = "delete_task" =>
          /\ out.kind = "bool"
          /\ out.present => (out.val <=> out.nth = 0)
    /\ \A id \in Ids : hist[id].dels > 0 =>
          /\ id \notin DOMAIN rows
          /\ out.kind = "list" => id \notin IdsOf(out)
          /\ (out.op = "get_task_by_id" /\ out.arg.id = id) =>
                out.kind = "None"
          /\ SelectById(rows, id).kind = "None"

\* a second delete_task on a created task returned false
C5_Witness ==
    /\ out.op = "delete_task" /\ out.kind = "bool"
    /\ out.present /\ out.nth > 0 /\ ~out.val

\* C6: the pending and the completed tasks are disjoint and together they
\* are all tasks, so the two counts add up to the total.
C6_Partition ==
    LET all == SelectAll(rows)
        pending == SelectPending(rows)
        completed == SelectCompleted(rows)
    IN /\ all.kind = "list" /\ pending.kind = "list" /\ completed.kind = "list"
       /\ TasksOf(pending) \cap TasksOf(completed) = {}
       /\ TasksOf(pending) \cup TasksOf(completed) = TasksOf(all)
       /\ Len(pending.val) + Len(completed.val) = Len(all.val)

\* the store holds a pending and a completed task
C6_Witness ==
    /\ Len(SelectPending(rows).val) = 1
    /\ Len(SelectCompleted(rows).val) = 1
    /\ Len(SelectAll(rows).val) = 2

\* C7: create_task with a null, empty or whitespace-only description raises
\* ValueError and writes nothing: the rows, committed or not, the write lock
\* and the result of get_all_tasks are what they were before the call.
C7_BlankDescriptionRejected ==
    [][(out'.op = "create_task" /\ Blank(out'.arg.description)) =>
          /\ out'.kind = ValueError
          /\ rows' = rows /\ seq' = seq /\ txn' = txn /\ lock' = lock
          /\ SelectAll(rows') = SelectAll(rows)]_vars

\* a whitespace-only description was rejected on a store that holds a task
C7_Witness ==
    /\ out.op = "create_task" /\ out.kind = ValueError
    /\ out.arg.description = <<" ">>
    /\ rows # <<>>

\* C8: create_task with a description that is not blank returns a pending
\* Task without completed_at whose description is the trimmed input; its
\* row is stored and it is among the pending, not the completed tasks.
C8_CreateValid ==
    (out.op = "create_task" /\ ~Blank(out.arg.description)) =>
        /\ out.kind = "Task"
        /\ out.status = "pending" /\ out.completed_at = None
        /\ out.description = Trimmed(out.arg.description)
        /\ out.id \in DOMAIN rows
        /\ out.id \in IdsOf(SelectPending(rows))
        /\ out.id \notin IdsOf(SelectCompleted(rows))

\* C9: create_task never returns an id it has returned before, whatever
\* has been deleted since.
C9_IdsNeverReused ==
    /\ \A id \in Ids : hist[id].issued <= 1
    /\ (out.op = "create_task" /\ out.kind = "Task") =>
          hist[out.id].issued = 1

\* create_task returned a new id after the task with the highest id had
\* been deleted
C9_Witness ==
    /\ out.op = "create_task" /\ out.kind = "Task"
    /\ out.id > 1
    /\ hist[out.id - 1].dels > 0
    /\ \A id \in DOMAIN rows : id >= out.id

\* C10: a task appears as pending and only under an id never used before,
\* a completed task stays completed until it is deleted, and a deleted
\* task stays absent.
C10_Lifecycle ==
    [][\A id \in Ids :
          /\ (id \notin DOMAIN rows /\ id \in DOMAIN rows') =>
                /\ rows'[id].status = "pending"
                /\ rows'[id].completed_at = NULL
                /\ hist[id].issued = 0
          /\ (id \in DOMAIN rows /\ rows[id].status = "completed"
                 /\ id \in DOMAIN rows') =>
                rows'[id].status = "completed"
          /\ (id \notin DOMAIN rows /\ hist[id].issued > 0) =>
                id \notin DOMAIN rows']_vars

\* a completed task was deleted while a task with a later id is stored
C10_Witness ==
    /\ out.op = "delete_task" /\ out.kind = "bool"
    /\ out.val /\ out.was = "completed"
    /\ out.arg.id \notin DOMAIN rows
    /\ \E id \in DOMAIN rows : id > out.arg.id

C12_CompletedNewestFirst ==
    out.op = "get_completed_tasks" =>
        /\ out.kind = "list"
        /\ IdsOf(out) = WithStatus("completed")
        /\ NoDuplicates(out)
        /\ \A t \in TasksOf(out) :
              t.status = "completed" /\ t.completed_at # None
        /\ \A m, n \in 1..Len(out.val) :
              out.val[m].completed_at.secs > out.val[n].completed_at.secs
                 => m < n

\* the task created second was completed first: it comes last
C12_Witness ==
    /\ out.op = "get_completed_tasks" /\ out.kind = "list"
    /\ Len(out.val) = 2
    /\ out.val[1].id < out.val[2].id
    /\ out.val[1].completed_at.secs > out.val[2].completed_at.secs

\* C13: get_pending_tasks returns exactly the stored tasks with status
\* pending, each once and none that was completed or deleted, and a pending
\* task with a later created_at comes before one with an earlier created_at.
C13_PendingNewestFirst ==
    out.op = "get_pending_tasks" =>
        /\ out.kind = "list"
        /\ IdsOf(out) = WithStatus("pending")
        /\ NoDuplicates(out)
        /\ \A t \in TasksOf(out) :
              /\ t.status = "pending" /\ t.completed_at = None
              /\ hist[t.id].marks = 0 /\ hist[t.id].dels = 0
        /\ \A m, n \in 1..Len(out.val) :
              out.val[m].created_at.secs > out.val[n].created_at.secs
                 => m < n

\* two pending tasks created at different times were returned while a
\* completed task is stored
C13_Witness ==
    /\ out.op = "get_pending_tasks" /\ out.kind = "list"
    /\ Len(out.val) = 2
    /\ out.val[1].created_at.secs > out.val[2].created_at.secs
    /\ WithStatus("completed") # {}

\* C14: for an id that is not in the store, mark_completed and delete_task
\* return false and get_task_by_id returns null; none of them raises and
\* the step in which the call returns leaves the stored rows as they were.
C14_AbsentId ==
    [][(/\ out'.op \in {"mark_completed", "delete_task", "get_task_by_id"}
        /\ out'.arg.id \notin DOMAIN rows) =>
          /\ out'.op = "get_task_by_id" => out'.kind = "None"
          /\ out'.op # "get_task_by_id" => out'.kind = "bool" /\ ~out'.val
          /\ rows' = rows /\ seq' = seq]_vars

\* mark_completed returned false for an id that is not among the stored
\* tasks
C14_Witness ==
    /\ out.op = "mark_completed" /\ out.kind = "bool" /\ ~out.val
    /\ out.arg.id \notin DOMAIN rows
    /\ rows # <<>>

\* C15: every failure of the storage during a repository operation reaches
\* the caller as RuntimeError: not as another exception, not as a returned
\* value.
C15_StorageFailureIsRuntimeError ==
    Failed(out) => out.kind = RuntimeError

\* C16: when create_task, mark_completed or delete_task fails in the
\* storage, at the statement or after it, its transaction is rolled back:
\* the failing step leaves the stored rows, sqlite_sequence and the history
\* as they were, gives up the write lock if the call held it and leaves the
\* transaction of another call alone.
C16_FailedWriteRolledBack ==
    [][(Failed(out') /\ out'.op \in Writes) =>
          /\ rows' = rows /\ seq' = seq /\ hist' = hist
          /\ lock' = NoCaller => txn' = NoTxn
          /\ lock' # NoCaller => lock' = lock /\ txn' = txn]_vars

\* create_task failed after its INSERT had given out an id: the id is not
\* stored and sqlite_sequence is what it was
C16_Witness ==
    /\ Failed(out) /\ out.op = "create_task" /\ out.at = "commit"
    /\ rows # <<>>
    /\ lock = NoCaller
    /\ seq = Max(DOMAIN rows)

\* C17: a call on another connection sees committed writes only: every Task
\* a query returns was created by a committed create_task, not deleted by a
\* committed delete_task and is completed exactly if a mark_completed
\* committed on it; get_all_tasks returns all such tasks; mark_completed
\* and delete_task return true only for a task whose creation committed.
C17_OnlyCommittedVisible ==
    /\ out.kind = "list" => \A t \in TasksOf(out) : Committed(t)
    /\ out.kind = "Task" /\ out.op = "get_task_by_id" => Committed(out)
    /\ out.op = "get_all_tasks" /\ out.kind = "list" =>
          IdsOf(out) = {i \in AllIds : hist[i].issued > 0 /\ hist[i].dels = 0}
    /\ out.op \in {"mark_completed", "delete_task"} /\ out.kind = "bool"
          /\ out.val => hist[out.arg.id].issued > 0

\* a query returned while another connection held the write lock with
\* rows that differ from the committed ones
C17_Witness ==
    /\ out.op \in Reads /\ out.kind \in {"list", "Task", "None"}
    /\ lock # NoCaller
    /\ txn.rows # rows

\* C18: when the repository call of a controller operation raises the
\* storage error (RuntimeError), the controller returns False,
\* create_new_task with the error message set, nothing is raised to the UI
\* and the stored rows stay as they were.
C18_ControllerReportsFailure ==
    [][(out'.kind = RuntimeError /\ ControllerCalls(out')) =>
          /\ Controller(out').kind = "bool"
          /\ ~Controller(out').val
          /\ out'.op = "create_task" =>
                Controller(out').error_message = "Failed"
          /\ rows' = rows]_vars

\* C19: create_schema on a store that has the table and the three indexes
\* raises no error of its own and changes nothing: every step of it leaves
\* the table, the indexes, the rows and sqlite_sequence as they are, and
\* unless the storage fails it returns normally.
C19_CreateSchemaIdempotent ==
    [][/\ (op[User] = "create_schema" \/ out'.op = "create_schema") =>
             rows' = rows /\ seq' = seq
       /\ (out'.op = "create_schema" /\ out'.arg.before = FullSchema) =>
             /\ schema' = FullSchema
             /\ out'.kind = "None" \/ out'.at = "storage"
       /\ schema = FullSchema => schema' = FullSchema]_vars

\* create_schema returned on a store that already had its schema and
\* holds a completed task
C19_Witness ==
    /\ out.op = "create_schema" /\ out.kind = "None"
    /\ out.arg.before = FullSchema
    /\ schema = FullSchema
    /\ WithStatus("completed") # {}

\* C20: when create_schema fails on a store that had no schema, neither
\* the tasks table nor any index exists after the call.
C20_FailedSchemaRolledBack ==
    (out.op = "create_schema" /\ Failed(out)
        /\ out.arg.before = NoSchema) => schema = NoSchema

\* the pair (status, completed_at) of a Task value is consistent: pending
\* without completed_at, or completed with one
ConsistentPair(status, completed_at) ==
    \/ status = "pending" /\ completed_at = None
    \/ status = "completed" /\ completed_at # None

\* C23: Task construction succeeds exactly if the description is not blank
\* and the pair (status, completed_at) is consistent; otherwise it raises
\* ValueError; the description of the constructed Task is the trimmed one.
C23_ConstructionIffValid ==
    (out.op = "Task" /\ out.kind # "input") =>
        /\ out.kind = "Task" <=>
              /\ ~Blank(out.arg.description)
              /\ ConsistentPair(out.arg.status, out.arg.completed_at)
        /\ out.kind # "Task" => out.kind = ValueError
        /\ out.kind = "Task" =>
              out.description = Trimmed(out.arg.description)

\* C27: every constructed Task has a status in {pending, completed}, so
\* that its status is pending exactly if its completed_at is null.
C27_StatusInEnum ==
    (out.op = "Task" /\ out.kind = "Task") =>
        /\ out.status \in {"pending", "completed"}
        /\ Consistent(out.status, out.completed_at, None)

\* a row that is pending with a completed_at, completed without one, has a
\* status that is neither, or has an empty description
Corrupt(row) ==
    \/ row.status = "pending" /\ row.completed_at # NULL
    \/ row.status = "completed" /\ row.completed_at = NULL
    \/ row.status \notin {"pending", "completed"}
    \/ row.description = <<>>

\* C22: a direct INSERT or UPDATE that would store a row that is pending
\* with a completed_at, completed without one, of another status or with
\* an empty description is rejected by the constraints of the table, and
\* the stored rows and sqlite_sequence stay as they were.
C22_DirectWriteRejected ==
    [][(out'.op \in {"direct_insert", "direct_update"} /\ Corrupt(out'.arg)) =>
          /\ out'.kind = IntegrityError
          /\ rows' = rows /\ seq' = seq /\ txn' = txn]_vars

\* a direct UPDATE that would leave a stored task completed without
\* completed_at was rejected
C22_Witness ==
    /\ out.op = "direct_update" /\ out.kind = IntegrityError
    /\ out.arg.status = "completed" /\ out.arg.completed_at = NULL
    /\ out.arg.description # <<>>
    /\ out.arg.id \in DOMAIN rows /\ rows[out.arg.id].status = "pending"

\* the five fields of a returned Task
Fields(t) ==
    [id |-> t.id, description |-> t.description, status |-> t.status,
     created_at |-> t.created_at, completed_at |-> t.completed_at]

\* C24: the Task create_task returns has the id and the created_at of the
\* stored row, and the get_task_by_id of that id that follows it returns a
\* Task with the same five fields.
C24_CreatedEqualsRead ==
    [][/\ (out'.op = "create_task" /\ out'.kind = "Task") =>
             /\ out'.id \in DOMAIN rows'
             /\ out'.created_at = Strptime(rows'[out'.id].created_at)
       /\ (/\ out.op = "create_task" /\ out.kind = "Task"
           /\ out'.op = "get_task_by_id" /\ out'.arg.id = out.id) =>
             /\ out'.kind = "Task"
             /\ Fields(out') = Fields(out)]_vars

\* get_task_by_id returned the task created last, created in the second
\* second of the clock from a description with surrounding whitespace or
\* not
C24_Witness ==
    /\ out.op = "get_task_by_id" /\ out.kind = "Task"
    /\ out.id = seq /\ out.id > 1
    /\ out.status = "pending"
    /\ out.created_at.secs = clock /\ clock > 1
    /\ lock = NoCaller

\* a returned Task shows the id, description and created_at of its row
ShowsRow(t, tbl) ==
    /\ t.id \in DOMAIN tbl
    /\ t.description = tbl[t.id].description
    /\ t.created_at = Strptime(tbl[t.id].created_at)

\* C25: the description and created_at of a stored task never change: no
\* step changes them in a row that stays, every returned Task (of
\* create_task first, of every query later) shows those of its row, and a
\* successful mark_completed changes status and completed_at of its row
\* and nothing else.
C25_CreatedAtImmutable ==
    [][/\ \A id \in DOMAIN rows \cap DOMAIN rows' :
             /\ rows'[id].created_at = rows[id].created_at
             /\ rows'[id].description = rows[id].description
       /\ out'.kind = "Task" => ShowsRow(out', rows')
       /\ out'.kind = "list" => \A t \in TasksOf(out') : ShowsRow(t, rows')
       /\ (out'.op = "mark_completed" /\ Succeeded(out')) =>
             /\ out'.arg.id \in DOMAIN rows \cap DOMAIN rows'
             /\ rows'[out'.arg.id] =
                   [rows[out'.arg.id] EXCEPT
                       !.status = "completed",
                       !.completed_at = rows'[out'.arg.id].completed_at]
             /\ rows[out'.arg.id].status = "pending"
             /\ rows'[out'.arg.id].completed_at # NULL]_vars

\* mark_completed returned true for a task created a second earlier
C25_Witness ==
    /\ out.op = "mark_completed" /\ Succeeded(out)
    /\ out.arg.id \in DOMAIN rows
    /\ rows[out.arg.id].created_at.text < rows[out.arg.id].completed_at.text

\* C28: mark_completed(id) and delete_task(id), returning true or false,
\* leave every other stored task as it was: it is neither added nor
\* removed and its row is the same in the five fields.
C28_OtherRowsUntouched ==
    [][(out'.op \in {"mark_completed", "delete_task"} /\ out'.kind = "bool") =>
          \A id \in (DOMAIN rows \cup DOMAIN rows') \ {out'.arg.id} :
             /\ id \in DOMAIN rows \cap DOMAIN rows'
             /\ rows'[id] = rows[id]
             /\ RowToTask(rows', id) = RowToTask(rows, id)]_vars

\* delete_task returned true for one task while a completed task with
\* another id is stored
C28_Witness ==
    /\ out.op = "delete_task" /\ Succeeded(out)
    /\ \E id \in DOMAIN rows :
          id # out.arg.id /\ rows[id].status = "completed"

Queries == {"get_all_tasks", "get_pending_tasks", "get_completed_tasks"}

\* the timestamp a query orders by
SortKey(o, t) ==
    IF o = "get_completed_tasks" THEN t.completed_at.secs
    ELSE t.created_at.secs

\* the place of every task in the list is fixed by its timestamp and,
\* among equal timestamps, by its id: descending for get_all_tasks,
\* ascending for the two filtered queries
FixedOrder(o, list) ==
    \A m, n \in 1..Len(list) :
       m < n =>
          \/ SortKey(o, list[m]) > SortKey(o, list[n])
          \/ /\ SortKey(o, list[m]) = SortKey(o, list[n])
             /\ IF o = "get_all_tasks" THEN list[m].id > list[n].id
                ELSE list[m].id < list[n].id

Called(o, r) == "by" \in DOMAIN o /\ o.by = r

\* the outcome of an operation of the repository that reached the storage
Worked(o) == o.op \in Reads \cup Writes /\ o.kind # ValueError

\* the database an instance was opened on: the file of its path or, for
\* ":memory:", a database of its own
Home(instances, r) ==
    IF instances[r].database_path = Memory THEN r
    ELSE instances[r].database_path

\* what a call returned: the list, the five fields of the Task, or the kind
\* of any other outcome
Returned(o) ==
    IF o.kind = "list" THEN [kind |-> "list", val |-> o.val]
    ELSE IF o.kind = "Task" THEN Fields(o)
    ELSE IF o.kind = "bool" THEN [kind |-> "bool", val |-> o.val]
    ELSE [kind |-> o.kind]

\* C21: an in-memory repository holds one open connection from its
\* construction until close(); every operation in between works on that
\* connection and leaves it open, so that what one operation wrote is in
\* the database the next one reads.  A file-backed repository holds no
\* connection: every operation works on a connection of its own, which is
\* closed when the operation returns.
C21_ConnectionLifetime ==
    [][\A r \in Repos :
          /\ (/\ Called(out', r) /\ out'.op = "__init__"
              /\ out'.arg.database_path = Memory) =>
                /\ repos'[r].connection # NoConnection
                /\ repos'[r].connection \in conns'
          /\ (repos[r].database_path = Memory
                 /\ repos[r].connection # NoConnection) =>
                \/ /\ Called(out', r) /\ out'.op = "close"
                   /\ repos'[r].connection = NoConnection
                   /\ repos[r].connection \notin conns'
                \/ /\ repos'[r].connection = repos[r].connection
                   /\ repos[r].connection \in conns'
                   /\ (Called(out', r) /\ Worked(out')) =>
                         out'.via = repos[r].connection
                   /\ ~Called(out', r) => stores'[r] = stores[r]
                   /\ (Called(out', r) /\ out'.op = "create_task"
                          /\ out'.kind = "Task") =>
                         out'.id \in DOMAIN stores'[r].rows
                   /\ (Called(out', r) /\ out'.op = "get_all_tasks"
                          /\ stores[r].schema.table) =>
                         /\ out'.kind = "list"
                         /\ IdsOf(out') = DOMAIN stores[r].rows
                   /\ (/\ Called(out, r) /\ out.op = "create_task"
                       /\ out.kind = "Task"
                       /\ Called(out', r) /\ out'.op = "get_task_by_id"
                       /\ out'.arg.id = out.id) =>
                         Returned(out') = Returned(out)
          /\ (Called(out', r) /\ repos'[r].database_path \in FilePaths) =>
                /\ repos'[r].connection = NoConnection
                /\ ~out'.via.kept
                /\ out'.via \notin conns'
                /\ \A c \in conns' : c.owner # r]_vars

\* get_all_tasks of an in-memory repository returned a completed task on
\* the connection the repository holds
C21_Witness ==
    \E r \in Repos :
       /\ Called(out, r) /\ out.op = "get_all_tasks" /\ out.kind = "list"
       /\ \E t \in TasksOf(out) : t.status = "completed"
       /\ repos[r].database_path = Memory
       /\ out.via = repos[r].connection /\ out.via \in conns

\* C29: what has been written to a database file is there for every
\* instance opened on the file: constructing an instance, with or without
\* auto_create_schema, and closing one leave the tasks of the file as they
\* are and its table in place; a write of any instance is in the file when
\* the call returns; a query of any instance returns the tasks of the
\* file, and so the same as the same query of another instance on the file
\* before it.
C29_SurvivesInstance ==
    [][\A p \in FilePaths, r \in Repos :
          /\ (Called(out', r) /\ out'.op \in {"__init__", "close"}) =>
                /\ stores'[p].rows = stores[p].rows
                /\ stores'[p].seq = stores[p].seq
                /\ stores[p].schema.table => stores'[p].schema.table
          /\ (/\ Called(out', r) /\ out'.op = "__init__"
              /\ out'.arg.database_path = p
              /\ out'.arg.auto_create_schema) =>
                stores'[p].schema.table
          /\ (Called(out', r) /\ repos[r].database_path = p) =>
                /\ (out'.op \in Reads /\ stores[p].schema.table) =>
                      ~Failed(out')
                /\ (out'.op = "create_task" /\ out'.kind = "Task") =>
                      ShowsRow(out', stores'[p].rows)
                /\ (out'.op = "mark_completed" /\ Succeeded(out')) =>
                      stores'[p].rows[out'.arg.id].status = "completed"
                /\ (out'.op = "delete_task" /\ Succeeded(out')) =>
                      out'.arg.id \notin DOMAIN stores'[p].rows
                /\ (out'.op = "get_all_tasks" /\ out'.kind = "list") =>
                      IdsOf(out') = DOMAIN stores[p].rows
                /\ (out'.op \in Queries /\ out'.kind = "list") =>
                      \A t \in TasksOf(out') :
                         t = RowToTask(stores[p].rows, t.id)
                /\ (/\ out.op \in Reads /\ out.op = out'.op
                    /\ out.arg = out'.arg /\ ~Called(out, r)
                    /\ repos[out.by].database_path = p) =>
                      Returned(out') = Returned(out)]_vars

\* an instance has been constructed without auto_create_schema on a file
\* in which the other instance left a completed task
C29_Witness ==
    \E p \in FilePaths, r \in Repos :
       /\ Called(out, r) /\ out.op = "__init__"
       /\ out.arg.database_path = p /\ ~out.arg.auto_create_schema
       /\ \E id \in DOMAIN stores[p].rows :
             stores[p].rows[id].status = "completed"
       /\ \A q \in Repos \ {r} : repos[q].database_path = p

\* C30: a call of an instance changes no database but the one the instance
\* was opened on, and what it returns comes from that database: every
\* returned Task shows a row of it, and mark_completed and delete_task
\* return true only for a task of it.
C30_Isolation ==
    [][\A r \in Repos :
          Called(out', r) =>
             LET home == Home(repos', r)
             IN /\ \A s \in Stores \ {home} : stores'[s] = stores[s]
                /\ out'.kind = "list" =>
                      \A t \in TasksOf(out') :
                         t = RowToTask(stores[home].rows, t.id)
                /\ out'.kind = "Task" => ShowsRow(out', stores'[home].rows)
                /\ (out'.op \in {"mark_completed", "delete_task"}
                       /\ Succeeded(out')) =>
                      out'.arg.id \in DOMAIN stores[home].rows]_vars

\* delete_task returned true while another database holds a task with
\* the same id
C30_Witness ==
    \E r \in Repos :
       /\ Called(out, r) /\ out.op = "delete_task" /\ Succeeded(out)
       /\ \E s \in Stores \ {Home(repos, r)} :
             out.arg.id \in DOMAIN stores[s].rows

\* the number of create_task calls that have returned a Task
RECURSIVE CreatedIn(_)
CreatedIn(S) ==
    IF S = {} THEN 0
    ELSE LET i == CHOOSE x \in S : TRUE
         IN hist[i].issued + CreatedIn(S \ {i})

Created == CreatedIn(AllIds)

\* C31: in a store that starts empty the k-th create_task that returns a
\* Task returns id k, whatever has been completed or deleted before; a
\* create_task that raises ValueError takes no id: the next successful call
\* gets the id it would have got without it.
C31_SequentialIds ==
    [][/\ (out'.op = "create_task" /\ out'.kind = "Task") =>
             /\ Created' = Created + 1
             /\ out'.id = Created'
       /\ (out'.op = "create_task" /\ out'.kind = ValueError) =>
             /\ Created' = Created
             /\ rows' = rows /\ seq' = seq /\ txn' = txn]_vars

\* the third create_task returned id 3 after the first task had been
\* deleted
C31_Witness ==
    /\ out.op = "create_task" /\ out.kind = "Task"
    /\ out.id = 3 /\ Created = 3
    /\ 1 \notin DOMAIN rows

\* completed_at is not before created_at in a row
NotBefore(row) ==
    row.status = "completed" => row.completed_at.text >= row.created_at.text

\* C32: every completed task, in a stored row, committed or not, or
\* returned by an operation, has a completed_at that is not before its
\* created_at; the storage clock only moves forward.
C32_CompletedNotBeforeCreated ==
    /\ \A id \in DOMAIN rows : NotBefore(rows[id])
    /\ \A id \in DOMAIN txn.rows : NotBefore(txn.rows[id])
    /\ (out.kind = "Task" /\ out.status = "completed") =>
          out.completed_at.secs >= out.created_at.secs
    /\ out.kind = "list" =>
          \A t \in TasksOf(out) :
             t.status = "completed" =>
                t.completed_at.secs >= t.created_at.secs

\* a query returned a task completed in the second of its creation and a
\* task completed a second after its creation
C32_Witness ==
    /\ out.op = "get_completed_tasks" /\ out.kind = "list"
    /\ \E t \in TasksOf(out) : t.completed_at.secs = t.created_at.secs
    /\ \E t \in TasksOf(out) : t.completed_at.secs > t.created_at.secs

\* what the repository returns for the query a view stands for
ViewOf(view_mode, tbl) ==
    CASE view_mode = "active_tasks" -> SelectPending(tbl)
      [] view_mode = "completed_tasks" -> SelectCompleted(tbl)
      [] view_mode = "all_tasks" -> SelectAll(tbl)

\* the status of the tasks a view shows
ShownIn(view_mode) ==
    CASE view_mode = "active_tasks" -> {"pending"}
      [] view_mode = "completed_tasks" -> {"completed"}
      [] view_mode = "all_tasks" -> {"pending", "completed"}

\* C33: get_tasks_for_view returns what the repository query of the view
\* returns (get_pending_tasks for ACTIVE_TASKS, get_completed_tasks for
\* COMPLETED_TASKS, get_all_tasks for ALL_TASKS), calls nothing else and
\* leaves the store as it is; after a switch to another view, going back to
\* the view shown before yields the tasks it showed.
C33_ViewIsSelector ==
    [][out'.op = "get_tasks_for_view" =>
          /\ rows' = rows /\ seq' = seq /\ txn' = txn /\ lock' = lock
          /\ Len(out'.calls) = 1
          /\ out'.kind = "list"
          /\ out'.val = ViewOf(out'.arg.view_mode, rows).val
          /\ IdsOf(out') =
                {id \in DOMAIN rows :
                    rows[id].status \in ShownIn(out'.arg.view_mode)}
          /\ out.op = "get_tasks_for_view" =>
                TasksOf(ViewOf(out.arg.view_mode, rows')) = TasksOf(out)]_vars

\* the completed view showed one task of a store that holds a pending task
\* too
C33_Witness ==
    /\ out.op = "get_tasks_for_view" /\ out.kind = "list"
    /\ out.arg.view_mode = "completed_tasks"
    /\ Len(out.val) = 1
    /\ \E id \in DOMAIN rows : rows[id].status = "pending"

\* the description has more than n characters between its first and its
\* last character that is not whitespace, these included
LongerThan(d, n) ==
    \E i \in 1..(Len(d) - n) :
       /\ d[i] # " "
       /\ \E j \in (i + n)..Len(d) : d[j] # " "

\* C34: create_new_task on a form whose description is empty after
\* trimming or longer than 500 characters after trimming returns False,
\* leaves an error message in the form, calls no repository operation and
\* stores nothing; no stored description is longer than 500 characters.
C34_FormRejected ==
    [][out'.op = "create_new_task" =>
          /\ (\/ Blank(out'.arg.description)
              \/ LongerThan(out'.arg.description, 500)) =>
                /\ out'.kind = "bool" /\ ~out'.val
                /\ ~out'.is_valid
                /\ out'.error_message # "None"
                /\ out'.calls = <<>>
                /\ rows' = rows /\ seq' = seq /\ txn' = txn
          /\ \A id \in DOMAIN rows' : Len(rows'[id].description) <= 500]_vars

\* a form of 501 characters was rejected while a description of 500
\* characters is stored
C34_Witness ==
    /\ out.op = "create_new_task" /\ ~out.val
    /\ Len(out.arg.description) = 501
    /\ out.arg.description[1] = "a"
    /\ \E id \in DOMAIN rows : Len(rows[id].description) = 500

\* C35: close() raises nothing, on a file-backed and on an in-memory
\* repository, and after it the repository holds no connection; a close()
\* of a repository that holds no connection, as after an earlier close()
\* or after leaving a with-block (__exit__ calls close()), changes
\* nothing: the repository, the databases and the open connections are
\* what the first close() left.
C35_CloseIdempotent ==
    [][\A r \in Repos :
          (Called(out', r) /\ out'.op = "close") =>
             /\ out'.kind = "None"
             /\ repos'[r].connection = NoConnection
             /\ repos'[r].database_path = repos[r].database_path
             /\ \A c \in conns' : c.owner # r
             /\ \A q \in Repos \ {r} : repos'[q] = repos[q]
             /\ repos[r].connection = NoConnection =>
                   repos' = repos /\ stores' = stores /\ conns' = conns
             /\ (Called(out, r) /\ out.op = "close") =>
                   repos' = repos /\ stores' = stores /\ conns' = conns]_vars

\* an in-memory repository that had been closed was closed again while the
\* other repository holds a task
C35_Witness ==
    \E r \in Repos :
       /\ Called(out, r) /\ out.op = "close" /\ out.kind = "None"
       /\ repos[r].database_path = Memory
       /\ out.via = NoConnection
       /\ \E q \in Repos \ {r} :
             /\ repos[q] # NoRepository
             /\ stores[Home(repos, q)].rows # <<>>

\* a call of the pair in race returns in this step
ReturnsInRace(o) ==
    /\ race.op = MarkAndDelete /\ race'.op = MarkAndDelete
    /\ race'.returned = race.returned + 1
    /\ out'.op = o

\* C36: of a mark_completed and a delete_task in progress together on one
\* pending task, delete_task returns true and the task is gone when it
\* returns; mark_completed returns true if it is the first of the two to
\* commit, when the task is still stored, and false, without an error, if
\* the delete committed before it; once the delete has returned the task is
\* in no stored row, completed or not.
C36_MarkAgainstDelete ==
    [][/\ ReturnsInRace("delete_task") =>
             /\ out'.kind = "bool" /\ out'.val
             /\ race.id \notin DOMAIN rows'
       /\ ReturnsInRace("mark_completed") =>
             /\ out'.kind = "bool"
             /\ out'.val <=> race.returned = 0
             /\ out'.val <=> race.id \in DOMAIN rows
             /\ out'.val =>
                   /\ race.id \in DOMAIN rows'
                   /\ rows'[race.id].status = "completed"
       /\ (race'.op = MarkAndDelete /\ hist'[race'.id].dels > 0) =>
             /\ race'.id \notin DOMAIN rows'
             /\ race'.id \notin DOMAIN txn'.rows
             /\ SelectById(rows', race'.id).kind = "None"
       /\ (race'.op = MarkAndDelete /\ race'.returned = 2) =>
             /\ race'.succeeded \in {1, 2}
             /\ race'.id \notin DOMAIN rows']_vars

\* both calls of such a pair have returned, mark_completed last and false
C36_Witness ==
    /\ race.op = MarkAndDelete /\ race.returned = 2
    /\ out.op = "mark_completed" /\ out.kind = "bool" /\ ~out.val
    /\ race.id \notin DOMAIN rows

\* C37: once an operation of a file-backed repository has returned or
\* raised, on the success path and on every error path, no connection on
\* its database file is open; a create_task that fails validation has
\* opened no connection.
C37_NoConnectionLeak ==
    /\ \A c \in conns : c.store \notin FilePaths
    /\ (out.op = "create_task" /\ out.kind = ValueError) =>
          out.via = NoConnection

\* an in-memory repository after its close()
ClosedInMemory(r) ==
    /\ repos[r].database_path = Memory
    /\ repos[r].connection = NoConnection

\* C38: after close() of an in-memory repository every query,
\* mark_completed, delete_task and create_task with a description that
\* passes the validation raises the storage error (RuntimeError): none
\* returns a list, a Task, null or a bool, none changes a database, and the
\* repository stays closed.
C38_ClosedInMemoryFails ==
    [][\A r \in Repos :
          /\ (Called(out', r) /\ out'.op = "close"
                 /\ repos[r].database_path = Memory) =>
                stores'[r] = NoStore
          /\ (ClosedInMemory(r) /\ Called(out', r) /\ Worked(out')) =>
                /\ out'.kind = RuntimeError
                /\ stores' = stores
                /\ stores'[r] = NoStore
                /\ repos' = repos
                /\ conns' = conns]_vars

\* delete_task of a closed in-memory repository raised the storage error
\* while the other repository holds the task with that id
C38_Witness ==
    \E r \in Repos :
       /\ ClosedInMemory(r)
       /\ Called(out, r) /\ out.op = "delete_task"
       /\ out.kind = RuntimeError
       /\ \E q \in Repos \ {r} :
             /\ repos[q] # NoRepository
             /\ out.arg.id \in DOMAIN stores[Home(repos, q)].rows

====
